---- MODULE Spec2Model ----
(***************************************************************************)
(* Trail search of trailwanderer-backend: searchTrails (predicate          *)
(* composition, count + id queries, hydration through                      *)
(* Trail.getFullTrailsByIds) over the pg connection pool.                  *)
(***************************************************************************)
EXTENDS Integers, Sequences, FiniteSets, TLC

(***************************************************************************)
(* Bounds of the model.                                                    *)
(***************************************************************************)
\* number of concurrent searchTrails invocations
NProcs == 2
\* capacity of the connection pool
PoolSize == 3
\* largest number of keys of a filter map
MaxKeys == 2
\* largest length of a features array
MaxFeat == 2
\* largest number of successive calls a caller makes with the same arguments
MaxCalls == 2
\* largest number of successive calls of UserService.findOrCreateOIDCUser
MaxLogins == 3

\* searchTrails' default arguments
DefaultPage == 1
DefaultLimit == 10

Procs == 1..NProcs

(***************************************************************************)
(* JavaScript values: undefined, numbers, strings and arrays of strings.   *)
(***************************************************************************)
Undefined == [t |-> "undef", n |-> 0, s |-> "", a |-> <<>>]
Num(x) == [t |-> "num", n |-> x, s |-> "", a |-> <<>>]
Str(x) == [t |-> "str", n |-> 0, s |-> x, a |-> <<>>]
Arr(x) == [t |-> "arr", n |-> 0, s |-> "", a |-> x]

\* ToBoolean: undefined, 0 and "" are falsy, every array is truthy
Truthy(v) ==
    CASE v.t = "undef" -> FALSE
      [] v.t = "num" -> v.n # 0
      [] v.t = "str" -> v.s # ""
      [] OTHER -> TRUE

\* a > b on two numbers; a comparison with undefined (NaN) is false
GreaterThan(a, b) == a.t = "num" /\ b.t = "num" /\ a.n > b.n

Range(q) == {q[j] : j \in 1..Len(q)}

\* String.prototype.startsWith and String.prototype.slice(0, n)
StartsWith(str, prefix) ==
    Len(str) >= Len(prefix) /\ SubSeq(str, 1, Len(prefix)) = prefix
Slice0(str, n) == SubSeq(str, 1, IF Len(str) < n THEN Len(str) ELSE n)

(***************************************************************************)
(* Strings, character by character.  \w of a regular expression is         *)
(* [A-Za-z0-9_]; \s and String.prototype.trim take the white space below.  *)
(***************************************************************************)
CharAt(str, j) == SubSeq(str, j, j)

UpperCase == <<"A", "B", "C", "D", "E", "F", "G", "H", "I", "J", "K", "L", "M",
               "N", "O", "P", "Q", "R", "S", "T", "U", "V", "W", "X", "Y", "Z">>
LowerCase == <<"a", "b", "c", "d", "e", "f", "g", "h", "i", "j", "k", "l", "m",
               "n", "o", "p", "q", "r", "s", "t", "u", "v", "w", "x", "y", "z">>
Digits == {"0", "1", "2", "3", "4", "5", "6", "7", "8", "9"}
WordChars == Range(UpperCase) \cup Range(LowerCase) \cup Digits \cup {"_"}
WhiteSpace == {" ", "\t", "\n", "\r"}

\* String.prototype.split(sep) for a separator of one character
RECURSIVE Split(_, _)
Split(str, sep) ==
    IF \A j \in 1..Len(str) : CharAt(str, j) # sep
    THEN <<str>>
    ELSE LET j == CHOOSE x \in 1..Len(str) :
                     CharAt(str, x) = sep /\ \A y \in 1..(x - 1) : CharAt(str, y) # sep
         IN  <<SubSeq(str, 1, j - 1)>> \o Split(SubSeq(str, j + 1, Len(str)), sep)

\* Array.prototype.join(sep)
RECURSIVE Join(_, _)
Join(words, sep) ==
    IF words = <<>> THEN ""
    ELSE IF Len(words) = 1 THEN words[1]
    ELSE words[1] \o sep \o Join(Tail(words), sep)

\* word.trim() !== ''
TrimNotEmpty(word) == \E j \in 1..Len(word) : CharAt(word, j) \notin WhiteSpace

\* word.replace(/[^\w\s]/gi, '')
RECURSIVE StripNonWord(_)
StripNonWord(word) ==
    IF word = "" THEN ""
    ELSE (IF CharAt(word, 1) \in WordChars \cup WhiteSpace THEN CharAt(word, 1) ELSE "")
         \o StripNonWord(SubSeq(word, 2, Len(word)))

\* the search term as bound for to_tsquery (lines 81-87)
sanitizedSearchTerm(searchTerm) ==
    LET words == Split(searchTerm, " ")
        kept == SelectSeq(words, TrimNotEmpty)
        stripped == [j \in 1..Len(kept) |-> StripNonWord(kept[j])]
    IN  Join(stripped, " & ")

\* the maximal runs of word characters of a text, in order
RECURSIVE Words(_)
Words(str) ==
    IF str = "" THEN <<>>
    ELSE IF CharAt(str, 1) \notin WordChars THEN Words(SubSeq(str, 2, Len(str)))
    ELSE LET n == CHOOSE x \in 1..Len(str) :
                     /\ \A y \in 1..x : CharAt(str, y) \in WordChars
                     /\ x = Len(str) \/ CharAt(str, x + 1) \notin WordChars
         IN  <<SubSeq(str, 1, n)>> \o Words(SubSeq(str, n + 1, Len(str)))

(***************************************************************************)
(* The filter map: a JavaScript object, its own keys in insertion order.   *)
(***************************************************************************)
Keys(f) == [j \in 1..Len(f) |-> f[j].k]
HasKey(f, key) == \E j \in 1..Len(f) : f[j].k = key
Get(f, key) ==
    IF HasKey(f, key)
    THEN f[CHOOSE j \in 1..Len(f) : f[j].k = key].v
    ELSE Undefined
Put(f, key, val) ==
    IF HasKey(f, key)
    THEN [j \in 1..Len(f) |-> IF f[j].k = key THEN [k |-> key, v |-> val] ELSE f[j]]
    ELSE Append(f, [k |-> key, v |-> val])
DeleteKey(f, key) == SelectSeq(f, LAMBDA e : e.k # key)

(***************************************************************************)
(* jsToSqlFilters: filter key -> column expression ("" when absent).       *)
(***************************************************************************)
NoColumn == ""
jsToSqlFilters(key) ==
    CASE key \in {"minDistanceImperial", "maxDistanceImperial"} -> "ts.distance_imperial"
      [] key \in {"minDistanceMetric", "maxDistanceMetric"} -> "ts.distance_metric"
      [] key \in {"minElevationImperial", "maxElevationImperial"} -> "ts.elevation_high_imperial"
      [] key \in {"minElevationMetric", "maxElevationMetric"} -> "ts.elevation_high_metric"
      [] key \in {"minElevationGainImperial", "maxElevationGainImperial"} -> "ts.elevation_gain_imperial"
      [] key \in {"minElevationGainMetric", "maxElevationGainMetric"} -> "ts.elevation_gain_metric"
      [] key \in {"minElevationLossImperial", "maxElevationLossImperial"} -> "ts.elevation_loss_imperial"
      [] key \in {"minElevationLossMetric", "maxElevationLossMetric"} -> "ts.elevation_loss_metric"
      [] key = "city" -> "t.city"
      [] key = "state" -> "t.state"
      [] OTHER -> NoColumn

(***************************************************************************)
(* The state of one predicate composition: the caller's filter map, the    *)
(* parameter list and counter of addParam, the WHERE clause as the list of *)
(* the fragments appended to " WHERE 1=1 ", and the error thrown, if any.  *)
(***************************************************************************)
NoError == [name |-> "", message |-> "", cause |-> ""]
Error(msg) == [name |-> "Error", message |-> msg, cause |-> ""]

NewBinder(f) ==
    [filters |-> f, params |-> <<>>, paramCount |-> 0, where |-> <<>>, err |-> NoError]

\* a binder that pushes the value twice for one placeholder
addParamTwice(c, param) ==
    [c EXCEPT !.params = Append(Append(@, param), param), !.paramCount = @ + 1]

\* lines 63-67: push the value, count it; the token returned is "$" and the
\* new paramCount
addParam(c, param) ==
    [c EXCEPT !.params = Append(@, param), !.paramCount = @ + 1]

Fragment(kind, col, p1, p2, n) ==
    [kind |-> kind, col |-> col, p1 |-> p1, p2 |-> p2, n |-> n]

Emit(c, frag) == [c EXCEPT !.where = Append(@, frag)]

\* a throw statement that does nothing
ThrowIgnored(c, e) == c

\* throw e: the composition ends with e
Throw(c, e) == [c EXCEPT !.err = e]

\* the builder with the comparison operator as line 182 names it
addElevationFiltersStrict(c, key, unit) ==
    LET elevType == IF StartsWith(key, "min") THEN "min" ELSE "max"
        filterParam == IF elevType = "min" THEN ">" ELSE "<"
        currentSqlKey == jsToSqlFilters(key \o unit)
        c1 == addParam(c, Get(c.filters, key))
    IN  IF currentSqlKey = NoColumn
        THEN Throw(c, Error("Invalid filter key: " \o key))
        ELSE Emit(c1, Fragment(filterParam, currentSqlKey, c1.paramCount, 0, 0))

addElevationFilters(c, key, unit) ==
    LET elevType == IF StartsWith(key, "min") THEN "min" ELSE "max"
        filterParam == IF elevType = "min" THEN ">" ELSE "<"
        currentKey == key \o unit
        currentSqlKey == jsToSqlFilters(currentKey)
        c1 == addParam(c, Get(c.filters, key))
    IN  IF currentSqlKey = NoColumn
        THEN Throw(c, Error("Invalid filter key: " \o key))
        ELSE Emit(c1, Fragment(filterParam \o "=", currentSqlKey, c1.paramCount, 0, 0))

\* the single-sided fragment on the metric column whatever the unit
SingleSidedColumnMetric(distType, currentSqlKey, nextSqlKey) == "ts.distance_metric"

\* lines 229-231: the column of the single-sided fragment
SingleSidedColumn(distType, currentSqlKey, nextSqlKey) ==
    IF distType = "min" THEN currentSqlKey ELSE nextSqlKey

addDistanceFilters(c, key, unit) ==
    LET distType == IF StartsWith(key, "min") THEN "min" ELSE "max"
        currentKey == distType \o "Distance" \o unit
        nextKey == IF distType = "min" THEN "maxDistance" \o unit ELSE "minDistance" \o unit
        currentSqlKey == jsToSqlFilters(currentKey)
        nextSqlKey == jsToSqlFilters(nextKey)
        noUnitCurKey == Slice0(currentKey, 11)
        noUnitNextKey == Slice0(nextKey, 11)
        f == c.filters
        swapped ==
            IF GreaterThan(Get(f, noUnitCurKey), Get(f, noUnitNextKey))
            THEN Put(Put(f, noUnitCurKey, Get(f, noUnitNextKey)),
                     noUnitNextKey, Get(f, noUnitCurKey))
            ELSE f
        b1 == addParam([c EXCEPT !.filters = swapped], Get(swapped, noUnitCurKey))
        b2 == addParam(b1, Get(swapped, noUnitNextKey))
        b3 == [b2 EXCEPT !.filters = DeleteKey(DeleteKey(@, noUnitCurKey), noUnitNextKey)]
        s1 == addParam(c, Get(f, noUnitCurKey))
        s2 == [s1 EXCEPT !.filters = DeleteKey(@, noUnitCurKey)]
    IN  IF currentSqlKey = NoColumn \/ nextSqlKey = NoColumn
        THEN Throw(c, Error("Invalid filter key: " \o key))
        ELSE IF Truthy(Get(f, nextKey))
        THEN Emit(b3, Fragment("BETWEEN", currentSqlKey, b1.paramCount, b2.paramCount, 0))
        ELSE IF distType = "min"
        THEN Emit(s2, Fragment(">=", SingleSidedColumn(distType, currentSqlKey, nextSqlKey),
                               s1.paramCount, 0, 0))
        ELSE Emit(s2, Fragment("<=", SingleSidedColumn(distType, currentSqlKey, nextSqlKey),
                               s1.paramCount, 0, 0))

\* lines 80-90: the full-text fragment of a truthy search term
TextPredicate(c, searchTerm) ==
    LET c1 == addParam(c, Str("%" \o sanitizedSearchTerm(searchTerm.s) \o "%"))
    IN  IF Truthy(searchTerm)
        THEN Emit(c1, Fragment("tsquery", "t.name || t.city || t.state", c1.paramCount, 0, 0))
        ELSE c

DistanceKeys == {"minDistance", "maxDistance"}
ElevationKeys == {"minElevation", "maxElevation", "minElevationLoss",
                  "maxElevationLoss", "minElevationGain", "maxElevationGain"}

\* the loop body without the test of line 127: a key without a column is
\* compared under its own name
FilterStepNoLookupTest(c, key, unit) ==
    LET val == Get(c.filters, key)
        c1 == addParam(c, val)
    IN  CASE key = "features" ->
                IF val.t # "arr"
                THEN Throw(c, Error("Features filter must be an array"))
                ELSE Emit(c1, Fragment("featuresAll", "f.feature_name", c1.paramCount, 0, Len(val.a)))
          [] key = "difficulty" -> Emit(c1, Fragment("ANY", "t.difficulty", c1.paramCount, 0, 0))
          [] key = "type" -> Emit(c1, Fragment("ANY", "ts.type", c1.paramCount, 0, 0))
          [] key \in DistanceKeys ->
                IF ~Truthy(val) THEN c ELSE addDistanceFilters(c, key, unit)
          [] key \in ElevationKeys ->
                IF ~Truthy(val) THEN c ELSE addElevationFilters(c, key, unit)
          [] OTHER ->
                Emit(c1, Fragment("=", IF jsToSqlFilters(key) # NoColumn
                                       THEN jsToSqlFilters(key) ELSE key,
                                  c1.paramCount, 0, 0))

\* one iteration of the loop over Object.keys(filters)
FilterStep(c, key, unit) ==
    LET val == Get(c.filters, key)
        c1 == addParam(c, val)
    IN  CASE key = "features" ->
                IF val.t # "arr"
                THEN Throw(c, Error("Features filter must be an array"))
                ELSE Emit(c1, Fragment("featuresAll", "f.feature_name", c1.paramCount, 0, Len(val.a)))
          [] key = "difficulty" -> Emit(c1, Fragment("ANY", "t.difficulty", c1.paramCount, 0, 0))
          [] key = "type" -> Emit(c1, Fragment("ANY", "ts.type", c1.paramCount, 0, 0))
          [] key \in DistanceKeys ->
                IF ~Truthy(val) THEN c ELSE addDistanceFilters(c, key, unit)
          [] key \in ElevationKeys ->
                IF ~Truthy(val) THEN c ELSE addElevationFilters(c, key, unit)
          [] OTHER ->
                IF jsToSqlFilters(key) # NoColumn
                THEN Emit(c1, Fragment("=", jsToSqlFilters(key), c1.paramCount, 0, 0))
                ELSE c

\* the loop: the keys are those the map had when the loop began
RECURSIVE FilterLoop(_, _, _, _)
FilterLoop(c, keys, j, unit) ==
    IF j > Len(keys) \/ c.err # NoError
    THEN c
    ELSE FilterLoop(FilterStep(c, keys[j], unit), keys, j + 1, unit)

\* lines 60-135 of searchTrails; filters = <<>> stands for an empty map, and a
\* null filters argument composes the same clause
ComposePredicate(searchTerm, f, unit) ==
    FilterLoop(TextPredicate(NewBinder(f), searchTerm), Keys(f), 1, unit)

(***************************************************************************)
(* The store the queries read: trails with their trail_stats row and their *)
(* features.  No operation modelled here writes it.                        *)
(***************************************************************************)
FeatureNames == {"Cave", "Falls", "cave"}

Trail(id, di, dm, eh, city, feats) ==
    [id |-> id, distance_imperial |-> di, distance_metric |-> dm,
     elevation_high_imperial |-> eh, city |-> city, features |-> feats]

Trails ==
    { Trail(1, 2, 3, 100, "Huntsville", {"Cave", "Falls"}),
      Trail(2, 5, 8, 300, "Huntsville", {"Cave"}),
      Trail(3, 10, 16, 100, "Madison", {"Falls", "cave"}),
      Trail(4, 12, 19, 300, "Madison", {}) }

\* the value of a column of the row that the joins build for a trail
Column(trail, col) ==
    CASE col = "ts.distance_imperial" -> Num(trail.distance_imperial)
      [] col = "ts.distance_metric" -> Num(trail.distance_metric)
      [] col = "ts.elevation_high_imperial" -> Num(trail.elevation_high_imperial)
      [] col = "ts.elevation_high_metric" -> Num((trail.elevation_high_imperial * 3) \div 10)
      [] col = "ts.elevation_gain_imperial" -> Num(trail.distance_imperial * 10)
      [] col = "ts.elevation_gain_metric" -> Num(trail.distance_imperial * 3)
      [] col = "ts.elevation_loss_imperial" -> Num(trail.distance_metric * 10)
      [] col = "ts.elevation_loss_metric" -> Num(trail.distance_metric * 3)
      [] col = "t.city" -> Str(trail.city)
      [] col = "t.state" -> Str("AL")
      [] OTHER -> Undefined

\* SQL LOWER
LowerChar(ch) ==
    IF \E j \in 1..Len(UpperCase) : UpperCase[j] = ch
    THEN LowerCase[CHOOSE j \in 1..Len(UpperCase) : UpperCase[j] = ch]
    ELSE ch
RECURSIVE Lower(_)
Lower(name) ==
    IF name = "" THEN ""
    ELSE LowerChar(CharAt(name, 1)) \o Lower(SubSeq(name, 2, Len(name)))

\* t.name and t.state of the trails of the store
TrailName(trail) ==
    CASE trail.id = 1 -> "Cave Trail"
      [] trail.id = 2 -> "Falls Loop"
      [] trail.id = 3 -> "Madison Falls"
      [] OTHER -> "Ridge"
TrailState(trail) == "AL"

\* to_tsvector('english', t.name || ' ' || t.city || ' ' || t.state): the
\* lexemes of the text, a lexeme being the lower-cased word (stemming and
\* stop words left out, on this side and on the query's alike)
ToTsVector(trail) ==
    LET text == Words(TrailName(trail) \o " " \o trail.city \o " " \o TrailState(trail))
    IN  {Lower(text[j]) : j \in 1..Len(text)}

\* to_tsquery('english', text): the operands between the & operators.  An
\* operand without a word next to an operator, or of two words, is a syntax
\* error; a text without any word is the empty query, which matches nothing
ToTsQuery(text) ==
    LET operands == Split(text, "&")
        words == [j \in 1..Len(operands) |-> Words(operands[j])]
    IN  [syntaxError |-> \/ \E j \in 1..Len(words) : Len(words[j]) > 1
                         \/ Len(words) > 1 /\ \E j \in 1..Len(words) : words[j] = <<>>,
         lexemes |-> {Lower(words[j][1]) : j \in {x \in 1..Len(words) : words[x] # <<>>}}]

\* the subquery without its HAVING clause: a trail with any of the names
FeaturesSubqueryAny(feats, named, n) ==
    {f \in feats : f \in Range(named)} # {}

\* the features subquery: the trail's trail_features rows whose name is in the
\* bound array form one group, kept when COUNT(DISTINCT LOWER(name)) = n
FeaturesSubquery(feats, named, n) ==
    LET matched == {f \in feats : f \in Range(named)}
    IN  matched # {} /\ Cardinality({Lower(f) : f \in matched}) = n

\* whether a row satisfies one fragment; a comparison with NULL (an undefined
\* parameter) is not true
Satisfies(trail, frag, params) ==
    LET val == Column(trail, frag.col)
        p1 == params[frag.p1]
    IN  CASE frag.kind = "featuresAll" ->
                FeaturesSubquery(trail.features, p1.a, frag.n)
          [] frag.kind = "ANY" -> val.t = "str" /\ val.s \in Range(p1.a)
          [] frag.kind = "BETWEEN" ->
                /\ p1.t = "num" /\ params[frag.p2].t = "num"
                /\ val.n >= p1.n /\ val.n <= params[frag.p2].n
          [] frag.kind = ">=" -> p1.t = "num" /\ val.n >= p1.n
          [] frag.kind = "<=" -> p1.t = "num" /\ val.n <= p1.n
          [] frag.kind = ">" -> p1.t = "num" /\ val.n > p1.n
          [] frag.kind = "<" -> p1.t = "num" /\ val.n < p1.n
          [] frag.kind = "=" -> p1.t # "undef" /\ val = p1
          [] frag.kind = "tsquery" ->
                /\ ToTsQuery(p1.s).lexemes # {}
                /\ ToTsQuery(p1.s).lexemes \subseteq ToTsVector(trail)
          [] OTHER -> FALSE

\* whether the server rejects a query with this clause
QueryRejects(where, params) ==
    \E j \in 1..Len(where) :
        where[j].kind = "tsquery" /\ ToTsQuery(params[where[j].p1].s).syntaxError

\* the ids selected by "... WHERE 1=1 <fragments>" (DISTINCT t.id)
Matching(where, params) ==
    {t.id : t \in {r \in Trails : \A j \in 1..Len(where) : Satisfies(r, where[j], params)}}

(***************************************************************************)
(* pg's Pool: at most PoolSize clients checked out, the other connect()    *)
(* calls pending in arrival order; a release hands the client to the first *)
(* pending call.  A holder is <<invocation, function>>.                    *)
(***************************************************************************)
PoolConnect(p, who) ==
    IF Cardinality(p.held) < PoolSize
    THEN [p EXCEPT !.held = @ \cup {who}]
    ELSE [p EXCEPT !.queue = Append(@, who)]

PoolRelease(p, who) ==
    IF p.queue # <<>>
    THEN [held |-> (p.held \ {who}) \cup {Head(p.queue)}, queue |-> Tail(p.queue)]
    ELSE [p EXCEPT !.held = @ \ {who}]

RECURSIVE PoolConnectAll(_, _, _)
PoolConnectAll(p, i, names) ==
    IF names = <<>> THEN p
    ELSE PoolConnectAll(PoolConnect(p, <<i, Head(names)>>), i, Tail(names))

(***************************************************************************)
(* State.                                                                  *)
(***************************************************************************)
VARIABLES
    pool,        \* [held, queue]: the clients checked out and the pending connect() calls
    active,      \* the invocations of searchTrails that take place
    calls,       \* per caller: the number of the call it is making (1, 2, ...)
    args,        \* per invocation: [searchTerm, filters, unit, userId, page, limit] as passed
    filters,     \* per invocation: the caller's filter map (searchTrails mutates it)
    pc,          \* per invocation: the await searchTrails is suspended at
    binder,      \* per invocation: params, paramCount and whereClause
    totalCount,  \* per invocation: countResult.rows[0].total_count
    result,      \* per invocation: whether the id query has answered, and its rows' ids
    hpc,         \* per invocation: the await Trail.getFullTrailsByIds is suspended at
    sub,         \* per invocation: the state of each call under Promise.all
    outcome,     \* per invocation: what the caller of searchTrails received
    acquired,    \* per invocation: the clients pool.connect() has given searchTrails
    released,    \* per invocation: the db.release() calls of searchTrails
    failure,     \* per invocation: the step that failed ("" when none has)
    queries,     \* per invocation: the queries searchTrails has run, in order
    hydrated,    \* per invocation: the id lists passed to Trail.getFullTrailsByIds
    verify,      \* per caller: its call of Trail.verifyTrailExists
    users,       \* the rows of the users table
    providers,   \* the rows of the oauth_providers table
    oidc,        \* per caller: its call of UserService.findOrCreateOIDCUser
    wanted,      \* the rows of the wanted_trails table: <<user_id, trail_id>>
    completed,   \* the rows of the completed_trails table: <<user_id, trail_id>>
    ucall        \* per caller: its call of a method of User or of Trail.getFullTrailsByIds

\* the state of the calls of the other models
listVars == <<wanted, completed, ucall>>
serviceVars == <<verify, users, providers, oidc, listVars>>

\* the state of searchTrails and of the calls under it, the pool apart
searchVars == <<active, args, calls, filters, pc, binder, totalCount, result, hpc, sub,
                outcome, acquired, released, failure, queries, hydrated>>

vars == <<pool, serviceVars, active, args, calls, filters, pc, binder, totalCount, result, hpc, sub,
          outcome, acquired, released, failure, queries, hydrated>>

\* the calls getFullTrailsByIds makes under Promise.all, in the order it makes them
AttributeCalls(userId) ==
    IF userId # 0
    THEN <<"getStatsByIds", "getTrailFeaturesByIds", "getTrailImagesByIds",
           "getTrailCoordsByIds", "isOnWishList", "isOnCompletedList">>
    ELSE <<"getStatsByIds", "getTrailFeaturesByIds", "getTrailImagesByIds",
           "getTrailCoordsByIds">>
SubNames == Range(AttributeCalls(1))

\* what a failed query or connect rejects with
QueryError == [name |-> "error", message |-> "connection terminated", cause |-> ""]
DatabaseError(msg, e) == [name |-> "DatabaseError", message |-> msg, cause |-> e.message]

NoOutcome == [kind |-> "none", error |-> NoError, totalCount |-> 0, trails |-> {}]
Returned(n, trails) == [kind |-> "return", error |-> NoError, totalCount |-> n, trails |-> trails]
Threw(e) == [kind |-> "throw", error |-> e, totalCount |-> 0, trails |-> {}]

\* a catch clause that throws the caught error on
SearchCatchRethrow(e) == e

\* the catch clause of searchTrails: what it throws for a caught e
SearchCatch(e) == Error("Error executing search query")

\* db.release() as the last statement of the try block instead
SearchFinallyOnReturn(p, i, threw) ==
    IF threw
    THEN [pool |-> p, released |-> 0]
    ELSE [pool |-> PoolRelease(p, <<i, "searchTrails">>), released |-> 1]

\* the finally clause of searchTrails: db.release()
SearchFinally(p, i, threw) ==
    [pool |-> PoolRelease(p, <<i, "searchTrails">>), released |-> 1]

\* searchTrails leaves through its return statement or its catch clause
Leave(i, p, out) ==
    LET fin == SearchFinally(p, i, out.kind = "throw")
    IN  /\ pc' = [pc EXCEPT ![i] = "done"]
        /\ outcome' = [outcome EXCEPT ![i] = out]
        /\ released' = [released EXCEPT ![i] = @ + fin.released]
        /\ pool' = fin.pool

(***************************************************************************)
(* The inputs.                                                             *)
(***************************************************************************)
DistValues == {0, 2, 10}
FeatureArrays == UNION {[1..n -> FeatureNames] : n \in 0..MaxFeat}

FilterValues(key) ==
    CASE key = "features" -> {Arr(<<"Cave">>), Arr(<<"Falls", "Cave">>), Str("Cave")}
      [] key \in {"minDistance", "maxDistance", "minDistanceImperial", "maxDistanceImperial"} ->
            {Num(d) : d \in DistValues}
      [] key = "minElevation" -> {Num(300)}
      [] key = "city" -> {Str("Huntsville"), Str("huntsville")}
      [] OTHER -> {Str("red")}

FilterKeys == {"features", "minDistance", "maxDistance", "minDistanceImperial",
               "maxDistanceImperial", "minElevation", "city", "color"}

FilterEntries == UNION {{[k |-> key, v |-> val] : val \in FilterValues(key)} : key \in FilterKeys}

FilterMaps ==
    UNION {{f \in [1..n -> FilterEntries] : \A a, b \in 1..n : f[a].k = f[b].k => a = b}
           : n \in 0..MaxKeys}

SearchCall(searchTerm, page, limit, f, userId, unit) ==
    [searchTerm |-> searchTerm, filters |-> f, unit |-> unit, userId |-> userId,
     page |-> page, limit |-> limit]

\* a call with a null search term and the default page and limit
SearchArgs(f, unit, userId) ==
    SearchCall(Undefined, DefaultPage, DefaultLimit, f, userId, unit)

\* null (absent), empty, blank and worded search terms
SearchTerms == {Undefined, Str(""), Str("   "), Str("Cave & Falls!"), Str("Falls"),
                Str("madison falls"), Str("Cave!"), Str("!")}

\* userId 0 stands for a null user
SearchInputs ==
    {SearchArgs(f, unit, 0) : f \in FilterMaps, unit \in {"Imperial", "Metric"}}
    \cup {SearchArgs(f, "Imperial", 1) : f \in {g \in FilterMaps : Len(g) <= 1}}
    \cup {SearchArgs(f, "Nautical", 0) : f \in {g \in FilterMaps : Len(g) <= 1}}
    \cup {SearchCall(term, DefaultPage, DefaultLimit, f, 0, "Imperial") :
              term \in SearchTerms, f \in {g \in FilterMaps : Len(g) <= 1}}

\* a features filter alone, any array
FeaturesInputs ==
    {SearchArgs(<<[k |-> "features", v |-> Arr(a)]>>, "Imperial", 0) : a \in FeatureArrays}

\* one elevation-family key, or the min and max keys of one family
ElevValues == {0, 30, 100, 300}
ElevationFamilies == {"Elevation", "ElevationGain", "ElevationLoss"}
ElevationMaps ==
    {<<[k |-> key, v |-> Num(x)]>> : key \in ElevationKeys, x \in ElevValues}
    \cup {<<[k |-> a \o fam, v |-> Num(x)], [k |-> b \o fam, v |-> Num(y)]>> :
             a \in {"min", "max"}, b \in {"min", "max"}, fam \in ElevationFamilies,
             x \in ElevValues, y \in ElevValues}
ElevationInputs ==
    {SearchArgs(f, unit, 0) :
        f \in {g \in ElevationMaps : \A a, b \in 1..Len(g) : g[a].k = g[b].k => a = b},
        unit \in {"Imperial", "Metric"}}

\* pages and limits over a few match sets
PagingInputs ==
    {SearchCall(term, page, limit, f, 0, "Imperial") :
        term \in {Undefined, Str("Falls")},
        page \in 1..3, limit \in {1, 2, 3, DefaultLimit},
        f \in {<<>>, <<[k |-> "city", v |-> Str("Huntsville")]>>,
               <<[k |-> "minDistance", v |-> Num(2)]>>}}

\* one search asked for page by page: the term, filter map and limit of the
\* calls are the same, the pages differ
PageWalkInputs ==
    {SearchCall(Undefined, page, limit, f, 0, "Imperial") :
        page \in 1..2, limit \in {1, 2},
        f \in {<<>>, <<[k |-> "city", v |-> Str("Huntsville")]>>}}

\* the inputs of the concurrent invocations
PoolInputs ==
    {SearchArgs(f, "Imperial", 0) :
        f \in {<<>>, <<[k |-> "minDistance", v |-> Num(2)]>>, <<[k |-> "features", v |-> Str("Cave")]>>,
               <<[k |-> "minDistanceImperial", v |-> Num(0)]>>}}

(***************************************************************************)
(* Init: every invocation has been given its arguments and not yet begun.  *)
(***************************************************************************)
\* what a call of a model's method gave its caller
NotCalled == [kind |-> "none", value |-> "", error |-> NoError]
Gave(v) == [kind |-> "return", value |-> v, error |-> NoError]
Raised(e) == [kind |-> "throw", value |-> "", error |-> e]

NoVerify == [pc |-> "idle", trailId |-> 0, queryFailed |-> FALSE, out |-> NotCalled]

\* the argument of findOrCreateOIDCUser (the names and the image path, which
\* pass through to User.create, left out)
OidcObj(email, providerName, providerUserId, accessToken, refreshToken) ==
    [email |-> email, providerName |-> providerName, providerUserId |-> providerUserId,
     accessToken |-> accessToken, refreshToken |-> refreshToken]
UserRow(id, username, email, acctType) ==
    [id |-> id, username |-> username, email |-> email, acctType |-> acctType]
NoUser == UserRow(0, "", "", "")
ProviderRow(id, userId, providerName, providerUserId, accessToken, refreshToken) ==
    [id |-> id, userId |-> userId, providerName |-> providerName,
     providerUserId |-> providerUserId, accessToken |-> accessToken,
     refreshToken |-> refreshToken]
NoProvider == ProviderRow(0, 0, "", "", "", "")

\* n counts the calls begun; users0 and providers0 are the tables as the
\* call in progress found them
NoOidc ==
    [pc |-> "idle", n |-> 0, obj |-> OidcObj("", "", "", "", ""), user |-> NoUser,
     oauthProvider |-> NoProvider, users0 |-> {}, providers0 |-> {},
     out |-> [kind |-> "none", user |-> NoUser, error |-> NoError]]

\* the wishlists and completed lists of the store: user 1 has entries, user 2 none
WantedTrails == {<<1, 1>>, <<1, 2>>}
CompletedTrails == {<<1, 1>>}

\* what a call of a method of User or of Trail.getFullTrailsByIds gave its
\* caller: trails (their ids) or a trail id, or an error
NoAnswer == [kind |-> "none", trails |-> {}, id |-> 0, error |-> NoError]
GaveTrails(ids) == [kind |-> "return", trails |-> ids, id |-> 0, error |-> NoError]
GaveId(id) == [kind |-> "return", trails |-> {}, id |-> id, error |-> NoError]
Failed(e) == [kind |-> "throw", trails |-> {}, id |-> 0, error |-> e]

\* n counts the calls begun; rows are the rows the method's own query
\* returned; fpc, ids, fout, facquired and freleased are the state of the call
\* of Trail.getFullTrailsByIds
NoUserCall ==
    [pc |-> "idle", n |-> 0, method |-> "", userId |-> 0, trailId |-> 0, raw |-> <<>>,
     queryFailed |-> FALSE, rows |-> {}, out |-> NoAnswer,
     fpc |-> "none", ids |-> <<>>, fqueryFailed |-> FALSE, fout |-> NoAnswer,
     facquired |-> 0, freleased |-> 0, subs |-> [s \in SubNames |-> "none"]]

InitAll(act, a, u) ==
    /\ users = u
    /\ wanted = WantedTrails
    /\ completed = CompletedTrails
    /\ ucall = [i \in Procs |-> NoUserCall]
    /\ providers = {}
    /\ oidc = [i \in Procs |-> NoOidc]
    /\ pool = [held |-> {}, queue |-> <<>>]
    /\ verify = [i \in Procs |-> NoVerify]
    /\ active = act
    /\ args = a
    /\ calls = [i \in Procs |-> 1]
    /\ filters = [i \in Procs |-> a[i].filters]
    /\ pc = [i \in Procs |-> "idle"]
    /\ binder = [i \in Procs |-> NewBinder(<<>>)]
    /\ totalCount = [i \in Procs |-> 0]
    /\ result = [i \in Procs |-> [answered |-> FALSE, rows |-> {}]]
    /\ hpc = [i \in Procs |-> "none"]
    /\ sub = [i \in Procs |-> [s \in SubNames |-> "none"]]
    /\ outcome = [i \in Procs |-> NoOutcome]
    /\ acquired = [i \in Procs |-> 0]
    /\ released = [i \in Procs |-> 0]
    /\ failure = [i \in Procs |-> ""]
    /\ queries = [i \in Procs |-> <<>>]
    /\ hydrated = [i \in Procs |-> <<>>]

InitWith(act, a) == InitAll(act, a, {})

\* one invocation, any input
Init ==
    \E a \in SearchInputs :
        InitWith({1}, [i \in Procs |-> IF i = 1 THEN a ELSE SearchArgs(<<>>, "Imperial", 0)])

\* one invocation, any features array
InitFeatures ==
    \E a \in FeaturesInputs :
        InitWith({1}, [i \in Procs |-> IF i = 1 THEN a ELSE SearchArgs(<<>>, "Imperial", 0)])

\* one invocation, elevation filters
InitElevation ==
    \E a \in ElevationInputs :
        InitWith({1}, [i \in Procs |-> IF i = 1 THEN a ELSE SearchArgs(<<>>, "Imperial", 0)])

\* one invocation, any page and limit
InitPaging ==
    \E a \in PagingInputs :
        InitWith({1}, [i \in Procs |-> IF i = 1 THEN a ELSE SearchArgs(<<>>, "Imperial", 0)])

\* NProcs invocations that differ in the page only
InitPageWalk ==
    \E a \in [Procs -> PageWalkInputs] :
        /\ \A i, j \in Procs : a[i] = [a[j] EXCEPT !.page = a[i].page]
        /\ \A i, j \in Procs : a[i].page = a[j].page => i = j
        /\ InitWith(Procs, a)

\* NProcs concurrent invocations
InitPool == \E a \in [Procs -> PoolInputs] : InitWith(Procs, a)

(***************************************************************************)
(* searchTrails.                                                           *)
(***************************************************************************)
\* line 57: pool.connect() is called
Call(i) ==
    /\ pc[i] = "idle"
    /\ pc' = [pc EXCEPT ![i] = "awaitConnect"]
    /\ pool' = PoolConnect(pool, <<i, "searchTrails">>)
    /\ UNCHANGED <<serviceVars, active, args, calls, filters, binder, totalCount, result, hpc, sub,
                   outcome, acquired, released, failure, queries, hydrated>>

\* line 57: pool.connect() rejects; the try statement is not entered
ConnectFail(i) ==
    /\ pc[i] = "idle"
    /\ pc' = [pc EXCEPT ![i] = "done"]
    /\ outcome' = [outcome EXCEPT ![i] = Threw(QueryError)]
    /\ failure' = [failure EXCEPT ![i] = "connect"]
    /\ UNCHANGED <<pool, serviceVars, active, args, calls, filters, binder, totalCount, result, hpc, sub,
                   acquired, released, queries, hydrated>>

\* lines 58-144: with the client, compose the predicate and send the count query
Compose(i) ==
    /\ pc[i] = "awaitConnect"
    /\ <<i, "searchTrails">> \in pool.held
    /\ acquired' = [acquired EXCEPT ![i] = @ + 1]
    /\ LET c == ComposePredicate(args[i].searchTerm, filters[i], args[i].unit)
       IN  /\ filters' = [filters EXCEPT ![i] = c.filters]
           /\ binder' = [binder EXCEPT ![i] = c]
           /\ IF c.err # NoError
              THEN /\ Leave(i, pool, Threw(SearchCatch(c.err)))
                   /\ failure' = [failure EXCEPT ![i] = "compose"]
                   /\ UNCHANGED queries
              ELSE /\ pc' = [pc EXCEPT ![i] = "awaitCount"]
                   /\ queries' = [queries EXCEPT ![i] =
                         Append(@, [q |-> "count", call |-> calls[i], where |-> c.where,
                                    params |-> c.params, limitParam |-> 0,
                                    offsetParam |-> 0])]
                   /\ UNCHANGED <<pool, outcome, released, failure>>
    /\ UNCHANGED <<serviceVars, active, args, calls, totalCount, result, hpc, sub, hydrated>>

\* an offset that skips the first page too
OffsetByPage(page, limit) == page * limit

\* line 59: let offset = (page - 1) * limit
Offset(page, limit) == (page - 1) * limit

\* the offset bound before the limit
BindPagingOffsetFirst(c, limit, offset) ==
    LET b1 == addParam(c, Num(offset))
        b2 == addParam(b1, Num(limit))
    IN  [binder |-> b2, limitParam |-> b2.paramCount, offsetParam |-> b1.paramCount]

\* lines 147-148: limitParam = addParam(limit), offsetParam = addParam(offset)
BindPaging(c, limit, offset) ==
    LET b1 == addParam(c, Num(limit))
        b2 == addParam(b1, Num(offset))
    IN  [binder |-> b2, limitParam |-> b1.paramCount, offsetParam |-> b2.paramCount]

\* lines 144-153: the count query answers; bind limit and offset, send the id query
CountDone(i) ==
    /\ pc[i] = "awaitCount"
    /\ \/ LET offset == Offset(args[i].page, args[i].limit)
              paging == BindPaging(binder[i], args[i].limit, offset)
              b == paging.binder
          IN  /\ ~QueryRejects(binder[i].where, binder[i].params)
              /\ totalCount' = [totalCount EXCEPT ![i] =
                    Cardinality(Matching(binder[i].where, binder[i].params))]
              /\ binder' = [binder EXCEPT ![i] = b]
              /\ queries' = [queries EXCEPT ![i] =
                    Append(@, [q |-> "ids", call |-> calls[i], where |-> b.where,
                               params |-> b.params, limitParam |-> paging.limitParam,
                               offsetParam |-> paging.offsetParam])]
              /\ pc' = [pc EXCEPT ![i] = "awaitIds"]
              /\ UNCHANGED <<pool, outcome, released, failure>>
       \/ /\ Leave(i, pool, Threw(SearchCatch(QueryError)))
          /\ failure' = [failure EXCEPT ![i] = "count"]
          /\ UNCHANGED <<totalCount, binder, queries>>
    /\ UNCHANGED <<serviceVars, active, args, calls, filters, result, acquired, hpc, sub, hydrated>>

\* the number of rows "LIMIT limit OFFSET offset" returns of n rows
PageSize(n, limit, offset) ==
    LET rest == IF n > offset THEN n - offset ELSE 0
    IN  IF rest < limit THEN rest ELSE limit

\* the rows "LIMIT limit OFFSET offset" may return: the query has no ORDER BY
Pages(ids, limit, offset) ==
    {page \in SUBSET ids : Cardinality(page) = PageSize(Cardinality(ids), limit, offset)}

\* line 150: finalQuery with its parameters, the last query sent
FinalQuery(i) == queries[i][Len(queries[i])]

\* hydrating whatever the id query returned
NeedsHydrationAlways(ids) == TRUE

\* lines 155-166: whether searchTrails hydrates the rows of the id query
NeedsHydration(ids) == Cardinality(ids) > 0

\* lines 153-166: the id query answers
IdsDone(i) ==
    /\ pc[i] = "awaitIds"
    /\ \/ \E page \in Pages(Matching(FinalQuery(i).where, FinalQuery(i).params),
                             FinalQuery(i).params[FinalQuery(i).limitParam].n,
                             FinalQuery(i).params[FinalQuery(i).offsetParam].n) :
             /\ ~QueryRejects(FinalQuery(i).where, FinalQuery(i).params)
             /\ result' = [result EXCEPT ![i] = [answered |-> TRUE, rows |-> page]]
             /\ UNCHANGED failure
             /\ IF NeedsHydration(page)
                THEN /\ pc' = [pc EXCEPT ![i] = "awaitHydrate"]
                     /\ hydrated' = [hydrated EXCEPT ![i] = Append(@, page)]
                     /\ hpc' = [hpc EXCEPT ![i] = "awaitConnect"]
                     /\ pool' = PoolConnect(pool, <<i, "getFullTrailsByIds">>)
                     /\ UNCHANGED <<outcome, released>>
                ELSE /\ Leave(i, pool, Returned(totalCount[i], {}))
                     /\ UNCHANGED <<hydrated, hpc>>
       \/ /\ Leave(i, pool, Threw(SearchCatch(QueryError)))
          /\ failure' = [failure EXCEPT ![i] = "ids"]
          /\ UNCHANGED <<result, hydrated, hpc>>
    /\ UNCHANGED <<serviceVars, active, args, calls, filters, binder, totalCount, acquired, sub, queries>>

(***************************************************************************)
(* Trail.getFullTrailsByIds, called by searchTrails with the rows' ids.    *)
(***************************************************************************)
\* getFullTrailsByIds throws e: its finally releases its client, and the
\* catch clause of searchTrails receives e
HydrateThrow(i, p, e) ==
    /\ hpc' = [hpc EXCEPT ![i] = "threw"]
    /\ failure' = [failure EXCEPT ![i] = "hydrate"]
    /\ Leave(i, PoolRelease(p, <<i, "getFullTrailsByIds">>), Threw(SearchCatch(e)))

\* lines 28-48: with its client, getFullTrailsByIds sends the trails query (the
\* ids searchTrails passes are numbers)
HydrateQuery(i) ==
    /\ hpc[i] = "awaitConnect"
    /\ <<i, "getFullTrailsByIds">> \in pool.held
    /\ hpc' = [hpc EXCEPT ![i] = "awaitTrails"]
    /\ UNCHANGED <<pool, serviceVars, active, args, calls, filters, pc, binder, totalCount, result, sub,
                   outcome, acquired, released, failure, queries, hydrated>>

\* lines 50-60, 94-107: the trails query answers; Promise.all starts the
\* attribute calls, each of which calls pool.connect() at once
HydrateTrailsDone(i) ==
    /\ hpc[i] = "awaitTrails"
    /\ \/ LET found == result[i].rows \cap {t.id : t \in Trails}
              attrs == AttributeCalls(args[i].userId)
          IN  IF found # {}
              THEN /\ hpc' = [hpc EXCEPT ![i] = "awaitAttrs"]
                   /\ sub' = [sub EXCEPT ![i] =
                         [s \in SubNames |-> IF s \in Range(attrs) THEN "pending" ELSE "none"]]
                   /\ pool' = PoolConnectAll(pool, i, attrs)
                   /\ UNCHANGED <<pc, outcome, released, failure>>
              ELSE /\ HydrateThrow(i, pool,
                         [name |-> "NotFoundError",
                          message |-> "No trails found for the provided IDs", cause |-> ""])
                   /\ UNCHANGED sub
       \/ /\ HydrateThrow(i, pool, DatabaseError("Error retrieving trail by id: ", QueryError))
          /\ UNCHANGED sub
    /\ UNCHANGED <<serviceVars, active, args, calls, filters, binder, totalCount, result, acquired, queries, hydrated>>

\* one call under Promise.all (getStatsByIds, ..., isOnCompletedList) has its
\* client: its query answers or fails and its finally releases the client.
\* getTrailCoordsByIds swallows a failure; any other rejects Promise.all, and
\* when the last call resolves getFullTrailsByIds returns the trails.  A call
\* that ends after Promise.all has rejected only releases its client.
SubDone(i, s) ==
    /\ sub[i][s] = "pending"
    /\ <<i, s>> \in pool.held
    /\ \E ok \in BOOLEAN :
         LET rejects == ~ok /\ s # "getTrailCoordsByIds"
             sub1 == [sub[i] EXCEPT ![s] = "settled"]
             p1 == PoolRelease(pool, <<i, s>>)
         IN  /\ sub' = [sub EXCEPT ![i] = sub1]
             /\ IF hpc[i] = "awaitAttrs" /\ rejects
                THEN HydrateThrow(i, p1, DatabaseError("Error retrieving trail by id: ", QueryError))
                ELSE IF hpc[i] = "awaitAttrs" /\ \A x \in SubNames : sub1[x] # "pending"
                THEN /\ hpc' = [hpc EXCEPT ![i] = "returned"]
                     /\ Leave(i, PoolRelease(p1, <<i, "getFullTrailsByIds">>),
                              Returned(totalCount[i], result[i].rows \cap {t.id : t \in Trails}))
                     /\ UNCHANGED failure
                ELSE /\ pool' = p1
                     /\ UNCHANGED <<pc, outcome, released, hpc, failure>>
    /\ UNCHANGED <<serviceVars, active, args, calls, filters, binder, totalCount, result, acquired, queries, hydrated>>

\* the caller, having received the outcome, calls searchTrails again with the
\* same arguments: the filter map is the object it passed before
CallAgain(i) ==
    /\ pc[i] = "done"
    /\ calls[i] < MaxCalls
    /\ \A s \in SubNames : sub[i][s] # "pending"
    /\ calls' = [calls EXCEPT ![i] = @ + 1]
    /\ pc' = [pc EXCEPT ![i] = "idle"]
    /\ binder' = [binder EXCEPT ![i] = NewBinder(<<>>)]
    /\ totalCount' = [totalCount EXCEPT ![i] = 0]
    /\ result' = [result EXCEPT ![i] = [answered |-> FALSE, rows |-> {}]]
    /\ hpc' = [hpc EXCEPT ![i] = "none"]
    /\ sub' = [sub EXCEPT ![i] = [s \in SubNames |-> "none"]]
    /\ outcome' = [outcome EXCEPT ![i] = NoOutcome]
    /\ acquired' = [acquired EXCEPT ![i] = 0]
    /\ released' = [released EXCEPT ![i] = 0]
    /\ failure' = [failure EXCEPT ![i] = ""]
    /\ hydrated' = [hydrated EXCEPT ![i] = <<>>]
    /\ UNCHANGED <<pool, serviceVars, active, args, filters, queries>>

Next ==
    \/ \E i \in active : CallAgain(i)
    \/ \E i \in active : Call(i)
    \/ \E i \in active : ConnectFail(i)
    \/ \E i \in active : Compose(i)
    \/ \E i \in active : CountDone(i)
    \/ \E i \in active : IdsDone(i)
    \/ \E i \in active : HydrateQuery(i)
    \/ \E i \in active : HydrateTrailsDone(i)
    \/ \E i \in active : \E s \in SubNames : SubDone(i, s)

Spec == Init /\ [][Next]_vars
SpecPool == InitPool /\ [][Next]_vars
SpecFeatures == InitFeatures /\ [][Next]_vars
SpecElevation == InitElevation /\ [][Next]_vars
SpecPaging == InitPaging /\ [][Next]_vars
SpecPageWalk == InitPageWalk /\ [][Next]_vars

(***************************************************************************)
(* Trail.verifyTrailExists(trailId).                                       *)
(***************************************************************************)
NotFoundError(msg) == [name |-> "NotFoundError", message |-> msg, cause |-> ""]

\* the ids asked for: of the store, and of no trail
TrailIdInputs == {1, 4, 5, 9999}

\* the try block: what it returns or throws, the query having answered or failed
VerifyTry(trailId, queryOk) ==
    IF ~queryOk THEN Raised(QueryError)
    ELSE IF \E t \in Trails : t.id = trailId
    THEN Gave("true")
    ELSE Raised(NotFoundError("Trail id not found"))

\* the catch clause: console.error(e), and the function runs to its end
VerifyCatch(e) == Gave("undefined")

\* pool.connect() is called
VerifyCall(i) ==
    /\ verify[i].pc = "idle"
    /\ \E id \in TrailIdInputs :
          verify' = [verify EXCEPT ![i] = [@ EXCEPT !.pc = "awaitConnect", !.trailId = id]]
    /\ pool' = PoolConnect(pool, <<i, "verifyTrailExists">>)
    /\ UNCHANGED <<searchVars, users, providers, oidc, listVars>>

\* with its client, verifyTrailExists sends the query
VerifyQuery(i) ==
    /\ verify[i].pc = "awaitConnect"
    /\ <<i, "verifyTrailExists">> \in pool.held
    /\ verify' = [verify EXCEPT ![i] = [@ EXCEPT !.pc = "awaitQuery"]]
    /\ UNCHANGED <<pool, searchVars, users, providers, oidc, listVars>>

\* the query answers or fails; try, catch and finally run
VerifyDone(i) ==
    /\ verify[i].pc = "awaitQuery"
    /\ \E queryOk \in BOOLEAN :
          LET tried == VerifyTry(verify[i].trailId, queryOk)
          IN  verify' = [verify EXCEPT ![i] =
                  [@ EXCEPT !.pc = "done", !.queryFailed = ~queryOk,
                            !.out = IF tried.kind = "throw"
                                    THEN VerifyCatch(tried.error) ELSE tried]]
    /\ pool' = PoolRelease(pool, <<i, "verifyTrailExists">>)
    /\ UNCHANGED <<searchVars, users, providers, oidc, listVars>>

NextTrail ==
    \/ \E i \in Procs : VerifyCall(i)
    \/ \E i \in Procs : VerifyQuery(i)
    \/ \E i \in Procs : VerifyDone(i)

InitTrail == InitWith({}, [i \in Procs |-> SearchArgs(<<>>, "Imperial", 0)])
SpecTrail == InitTrail /\ [][NextTrail]_vars

(***************************************************************************)
(* UserService.findOrCreateOIDCUser(obj), with User.findByEmail,           *)
(* User.create and OAuthProvider.findByUserIdAndProvider, create, update.  *)
(* Each of these takes a client, runs one statement and releases the       *)
(* client; the calls modelled here follow one another and find the pool    *)
(* free.  Any statement may fail, and the method then throws DatabaseError.*)
(***************************************************************************)
\* SELECT ... FROM users WHERE email = $1: the rows
FindByEmail(rows, email) == {u \in rows : u.email = email}

\* INSERT INTO users ... RETURNING: the row User.create is given
CreatedUser(rows, obj) ==
    UserRow(Cardinality(rows) + 1, Split(obj.email, "@")[1], obj.email, "oauth")

\* SELECT ... FROM oauth_providers WHERE user_id = $1 AND provider_name = $2
FindByUserIdAndProvider(rows, userId, providerName) ==
    {r \in rows : r.userId = userId /\ r.providerName = providerName}

\* INSERT INTO oauth_providers ... RETURNING
CreatedProvider(rows, userId, obj) ==
    ProviderRow(Cardinality(rows) + 1, userId, obj.providerName, obj.providerUserId,
                obj.accessToken, obj.refreshToken)

\* an update that leaves the stored tokens as they are
UpdatedProvidersKeepTokens(rows, oauthProvider) ==
    {IF r.userId = oauthProvider.userId
     THEN [r EXCEPT !.providerName = oauthProvider.providerName,
                    !.providerUserId = oauthProvider.providerUserId]
     ELSE r : r \in rows}

\* UPDATE oauth_providers SET provider_name = $1, provider_user_id = $2,
\* access_token = $3, refresh_token = $4 ... WHERE user_id = $6: the table after
UpdatedProviders(rows, oauthProvider) ==
    {IF r.userId = oauthProvider.userId
     THEN [r EXCEPT !.providerName = oauthProvider.providerName,
                    !.providerUserId = oauthProvider.providerUserId,
                    !.accessToken = oauthProvider.accessToken,
                    !.refreshToken = oauthProvider.refreshToken]
     ELSE r : r \in rows}

OidcInputs ==
    {OidcObj(email, providerName, "p-" \o providerName, accessToken, "r-" \o accessToken) :
        email \in {"ann@x.com", "bob@x.com"},
        providerName \in {"google", "facebook"},
        accessToken \in {"t1", "t2"}}

OidcThrow(i, e) ==
    oidc' = [oidc EXCEPT ![i].pc = "done",
                         ![i].out = [kind |-> "throw", user |-> NoUser, error |-> e]]

\* the calls of findOrCreateOIDCUser begun so far
RECURSIVE OidcLogins(_)
OidcLogins(S) ==
    IF S = {} THEN 0
    ELSE LET i == CHOOSE x \in S : TRUE IN oidc[i].n + OidcLogins(S \ {i})

\* line 24: findOrCreateOIDCUser is called and calls User.findByEmail
OidcCall(i) ==
    /\ oidc[i].pc = "idle"
    /\ OidcLogins(Procs) < MaxLogins
    /\ \E obj \in OidcInputs :
          oidc' = [oidc EXCEPT ![i].pc = "findByEmail", ![i].n = @ + 1, ![i].obj = obj,
                               ![i].user = NoUser, ![i].oauthProvider = NoProvider,
                               ![i].users0 = users, ![i].providers0 = providers]
    /\ UNCHANGED <<pool, searchVars, listVars, verify, users, providers>>

\* lines 24-34: User.findByEmail answers; without a user, User.create is called
OidcFoundUser(i) ==
    /\ oidc[i].pc = "findByEmail"
    /\ \/ IF FindByEmail(users, oidc[i].obj.email) # {}
          THEN \E u \in FindByEmail(users, oidc[i].obj.email) :
                  oidc' = [oidc EXCEPT ![i].pc = "findProvider", ![i].user = u]
          ELSE oidc' = [oidc EXCEPT ![i].pc = "createUser"]
       \/ OidcThrow(i, DatabaseError("", QueryError))
    /\ UNCHANGED <<pool, searchVars, listVars, verify, users, providers>>

\* lines 26-36: User.create answers; OAuthProvider.findByUserIdAndProvider is called
OidcCreatedUser(i) ==
    /\ oidc[i].pc = "createUser"
    /\ \/ /\ users' = users \cup {CreatedUser(users, oidc[i].obj)}
          /\ oidc' = [oidc EXCEPT ![i].pc = "findProvider",
                                   ![i].user = CreatedUser(users, oidc[i].obj)]
       \/ OidcThrow(i, DatabaseError("", QueryError)) /\ UNCHANGED users
    /\ UNCHANGED <<pool, searchVars, listVars, verify, providers>>

\* lines 36-50: findByUserIdAndProvider answers; create or update is called
OidcFoundProvider(i) ==
    /\ oidc[i].pc = "findProvider"
    /\ \/ LET found == FindByUserIdAndProvider(providers, oidc[i].user.id,
                                               oidc[i].obj.providerName)
          IN  IF found = {}
              THEN oidc' = [oidc EXCEPT ![i].pc = "createProvider"]
              ELSE \E r \in found :
                      oidc' = [oidc EXCEPT ![i].pc = "updateProvider",
                                  ![i].oauthProvider =
                                      [r EXCEPT !.accessToken = oidc[i].obj.accessToken,
                                                !.refreshToken = oidc[i].obj.refreshToken]]
       \/ OidcThrow(i, DatabaseError("", QueryError))
    /\ UNCHANGED <<pool, searchVars, listVars, verify, users, providers>>

\* lines 39-54: OAuthProvider.create answers; the user is returned
OidcCreatedProvider(i) ==
    /\ oidc[i].pc = "createProvider"
    /\ \/ /\ providers' = providers \cup {CreatedProvider(providers, oidc[i].user.id, oidc[i].obj)}
          /\ oidc' = [oidc EXCEPT ![i].pc = "done",
                         ![i].out = [kind |-> "return", user |-> oidc[i].user, error |-> NoError]]
       \/ OidcThrow(i, DatabaseError("", QueryError)) /\ UNCHANGED providers
    /\ UNCHANGED <<pool, searchVars, listVars, verify, users>>

\* lines 48-54: OAuthProvider.update answers; the user is returned
OidcUpdatedProvider(i) ==
    /\ oidc[i].pc = "updateProvider"
    /\ \/ /\ providers' = UpdatedProviders(providers, oidc[i].oauthProvider)
          /\ oidc' = [oidc EXCEPT ![i].pc = "done",
                         ![i].out = [kind |-> "return", user |-> oidc[i].user, error |-> NoError]]
       \/ OidcThrow(i, DatabaseError("", QueryError)) /\ UNCHANGED providers
    /\ UNCHANGED <<pool, searchVars, listVars, verify, users>>

\* the caller has its answer; its next call may begin
OidcNext(i) ==
    /\ oidc[i].pc = "done"
    /\ oidc' = [oidc EXCEPT ![i].pc = "idle",
                             ![i].out = [kind |-> "none", user |-> NoUser, error |-> NoError]]
    /\ UNCHANGED <<pool, searchVars, listVars, verify, users, providers>>

NextOidc ==
    \/ \E i \in active : OidcCall(i)
    \/ \E i \in active : OidcFoundUser(i)
    \/ \E i \in active : OidcCreatedUser(i)
    \/ \E i \in active : OidcFoundProvider(i)
    \/ \E i \in active : OidcCreatedProvider(i)
    \/ \E i \in active : OidcUpdatedProvider(i)
    \/ \E i \in active : OidcNext(i)

\* the users table holds no row, or the row of a local account
OidcStores == {{}, {UserRow(1, "ann", "ann@x.com", "local")}}

\* one caller: each call begins after the previous one has answered
InitOidc ==
    \E u \in OidcStores :
        InitAll({1}, [i \in Procs |-> SearchArgs(<<>>, "Imperial", 0)], u)

\* NProcs callers, whose calls overlap
InitOidcRace ==
    \E u \in OidcStores :
        InitAll(Procs, [i \in Procs |-> SearchArgs(<<>>, "Imperial", 0)], u)
SpecOidc == InitOidc /\ [][NextOidc]_vars
SpecOidcRace == InitOidcRace /\ [][NextOidc]_vars

(***************************************************************************)
(* Trail.getFullTrailsByIds(rawTrailIds, userId) as called by a route or   *)
(* by User.getWishList and User.getCompleted, and User.deleteFromWishList. *)
(***************************************************************************)
NaN == [t |-> "nan", n |-> 0, s |-> "", a |-> <<>>]

DigitValue(ch) == CHOOSE d \in 0..9 : CharAt("0123456789", d + 1) = ch
RECURSIVE ParseDigits(_)
ParseDigits(str) ==
    IF str = "" THEN 0
    ELSE ParseDigits(SubSeq(str, 1, Len(str) - 1)) * 10 + DigitValue(CharAt(str, Len(str)))

\* Number(id): a number is itself; a string of white space only (the empty
\* string too) is 0, a string of digits its value, any other string modelled
\* here NaN; undefined is NaN
Number(v) ==
    CASE v.t = "num" -> v
      [] v.t = "str" ->
            IF \A j \in 1..Len(v.s) : CharAt(v.s, j) \in WhiteSpace THEN Num(0)
            ELSE IF \A j \in 1..Len(v.s) : CharAt(v.s, j) \in Digits
            THEN Num(ParseDigits(v.s))
            ELSE NaN
      [] OTHER -> NaN

BadRequestError(msg) == [name |-> "BadRequestError", message |-> msg, cause |-> ""]
TypeError(msg) == [name |-> "TypeError", message |-> msg, cause |-> ""]

\* lines 30-36: rawTrailIds.map(...), which throws at the first id that is NaN
TrailIdsMap(raw) ==
    IF \E j \in 1..Len(raw) : Number(raw[j]) = NaN
    THEN [err |-> BadRequestError("Trail ids must be a number."), ids |-> <<>>]
    ELSE [err |-> NoError, ids |-> [j \in 1..Len(raw) |-> Number(raw[j]).n]]

\* a catch clause that wraps whatever it catches
FullTrailsCatchWrapAll(e) == DatabaseError("Error retrieving trail by id: ", e)

\* lines 99-104: the catch clause of getFullTrailsByIds
FullTrailsCatch(e) ==
    IF e.name \in {"NotFoundError", "BadRequestError"}
    THEN e
    ELSE DatabaseError("Error retrieving trail by id: ", e)

\* the catch clauses of getWishList (User.js 257-259) and getCompleted (377-379)
ListCatch(method, e) ==
    IF method = "getWishList"
    THEN DatabaseError("Unable to retrive wishlist for user: ", e)
    ELSE DatabaseError("Error retrieving completed trails for user: ", e)

\* the try block of deleteFromWishList (User.js 328-340), the DELETE having
\* returned the rows of deleted or failed
DeleteTry(deleted, trailId, queryOk) ==
    IF ~queryOk THEN Failed(QueryError)
    ELSE IF deleted = {}
    THEN Failed(TypeError("Cannot read properties of undefined (reading 'trail_id')"))
    ELSE IF trailId = 0
    THEN Failed(NotFoundError("Trail not found on users wish list."))
    ELSE GaveId(trailId)

\* the catch clause of deleteFromWishList (User.js 342-347)
DeleteCatch(e) ==
    IF e.name = "NotFoundError"
    THEN e
    ELSE DatabaseError("Trail not added removed from wish list: ", e)

\* the users and the trail ids the calls are made for
UserIds == {1, 2}
DeleteTrailIds == {1, 2, 9999}
RawIdInputs ==
    {<<>>, <<Num(1)>>, <<Num(1), Num(2)>>, <<Num(9999)>>, <<Num(9999), Num(1)>>,
     <<Str("2")>>, <<Str("invalid")>>, <<Num(1), Str("invalid")>>,
     <<Str("invalid"), Num(9999)>>, <<Str("")>>, <<Undefined>>}

\* the trail ids of a result's rows, as an array
RECURSIVE RowsToIds(_)
RowsToIds(S) ==
    IF S = {} THEN <<>>
    ELSE LET x == CHOOSE y \in S : \A z \in S : y <= z
         IN  <<Num(x)>> \o RowsToIds(S \ {x})

NoSubPending(i) == \A s \in SubNames : ucall[i].subs[s] # "pending"

BeginCall(i, method, userId, trailId, raw, at) ==
    [NoUserCall EXCEPT !.pc = at, !.n = ucall[i].n + 1, !.method = method,
                       !.userId = userId, !.trailId = trailId, !.raw = raw]

\* User.js 241-242, 361-363: getWishList or getCompleted is called and calls pool.connect()
ListCall(i) ==
    /\ ucall[i].pc \in {"idle", "done"} /\ ucall[i].n < MaxCalls /\ NoSubPending(i)
    /\ \E method \in {"getWishList", "getCompleted"}, userId \in UserIds :
          /\ ucall' = [ucall EXCEPT ![i] = BeginCall(i, method, userId, 0, <<>>, "awaitConnect")]
          /\ pool' = PoolConnect(pool, <<i, method>>)
    /\ UNCHANGED <<searchVars, verify, users, providers, oidc, wanted, completed>>

\* User.js 326-327: deleteFromWishList is called and calls pool.connect()
DeleteCall(i) ==
    /\ ucall[i].pc \in {"idle", "done"} /\ ucall[i].n < MaxCalls /\ NoSubPending(i)
    /\ \E userId \in UserIds, trailId \in DeleteTrailIds :
          ucall' = [ucall EXCEPT ![i] =
                       BeginCall(i, "deleteFromWishList", userId, trailId, <<>>, "awaitConnect")]
    /\ pool' = PoolConnect(pool, <<i, "deleteFromWishList">>)
    /\ UNCHANGED <<searchVars, verify, users, providers, oidc, wanted, completed>>

\* with its client, the method of User sends its query
UserQuery(i) ==
    /\ ucall[i].pc = "awaitConnect"
    /\ <<i, ucall[i].method>> \in pool.held
    /\ ucall' = [ucall EXCEPT ![i].pc = "awaitRows"]
    /\ UNCHANGED <<pool, searchVars, verify, users, providers, oidc, wanted, completed>>

\* getFullTrailsByIds leaves with fo: its finally releases its client, and its
\* caller goes on; getWishList and getCompleted return what they are given or
\* wrap what they catch, and release their client
FullLeave(i, u, p, fo) ==
    LET p1 == PoolRelease(p, <<i, "getFullTrailsByIds">>)
        u1 == [u EXCEPT !.fpc = IF fo.kind = "throw" THEN "threw" ELSE "returned",
                        !.fout = fo, !.freleased = @ + 1, !.pc = "done"]
    IN  IF u.method = "getFullTrailsByIds"
        THEN /\ ucall' = [ucall EXCEPT ![i] = [u1 EXCEPT !.out = fo]]
             /\ pool' = p1
        ELSE /\ ucall' = [ucall EXCEPT ![i] =
                            [u1 EXCEPT !.out = IF fo.kind = "throw"
                                               THEN Failed(ListCatch(u.method, fo.error))
                                               ELSE fo]]
             /\ pool' = PoolRelease(p1, <<i, u.method>>)

\* User.js 244-254, 365-374: the SELECT answers; the trail ids of its rows go
\* to Trail.getFullTrailsByIds, which calls pool.connect()
ListRowsDone(i) ==
    /\ ucall[i].pc = "awaitRows"
    /\ ucall[i].method \in {"getWishList", "getCompleted"}
    /\ \/ LET table == IF ucall[i].method = "getWishList" THEN wanted ELSE completed
              rows == {r[2] : r \in {x \in table : x[1] = ucall[i].userId}}
          IN  /\ ucall' = [ucall EXCEPT ![i] =
                              [@ EXCEPT !.pc = "awaitFull", !.rows = rows,
                                        !.raw = RowsToIds(rows), !.fpc = "awaitConnect"]]
              /\ pool' = PoolConnect(pool, <<i, "getFullTrailsByIds">>)
       \/ /\ ucall' = [ucall EXCEPT ![i] =
                          [@ EXCEPT !.pc = "done", !.queryFailed = TRUE,
                                    !.out = Failed(ListCatch(ucall[i].method, QueryError))]]
          /\ pool' = PoolRelease(pool, <<i, ucall[i].method>>)
    /\ UNCHANGED <<searchVars, verify, users, providers, oidc, wanted, completed>>

\* User.js 328-350: the DELETE answers or fails; try, catch and finally run
DeleteDone(i) ==
    /\ ucall[i].pc = "awaitRows"
    /\ ucall[i].method = "deleteFromWishList"
    /\ \E queryOk \in BOOLEAN :
          LET deleted == wanted \cap {<<ucall[i].userId, ucall[i].trailId>>}
              tried == DeleteTry(deleted, ucall[i].trailId, queryOk)
          IN  /\ wanted' = IF queryOk THEN wanted \ deleted ELSE wanted
              /\ ucall' = [ucall EXCEPT ![i] =
                              [@ EXCEPT !.pc = "done", !.queryFailed = ~queryOk,
                                        !.rows = {r[2] : r \in deleted},
                                        !.out = IF tried.kind = "throw"
                                                THEN Failed(DeleteCatch(tried.error))
                                                ELSE tried]]
    /\ pool' = PoolRelease(pool, <<i, "deleteFromWishList">>)
    /\ UNCHANGED <<searchVars, verify, users, providers, oidc, completed>>

\* part_003 26-28: getFullTrailsByIds is called by a route and calls pool.connect()
FullCall(i) ==
    /\ ucall[i].pc \in {"idle", "done"} /\ ucall[i].n < MaxCalls /\ NoSubPending(i)
    /\ \E raw \in RawIdInputs, userId \in {0, 1} :
          ucall' = [ucall EXCEPT ![i] =
                       [BeginCall(i, "getFullTrailsByIds", userId, 0, raw, "awaitFull")
                           EXCEPT !.fpc = "awaitConnect"]]
    /\ pool' = PoolConnect(pool, <<i, "getFullTrailsByIds">>)
    /\ UNCHANGED <<searchVars, verify, users, providers, oidc, wanted, completed>>

\* part_003 28-48: with its client, getFullTrailsByIds converts the ids and
\* sends the trails query
FullQuery(i) ==
    /\ ucall[i].fpc = "awaitConnect"
    /\ <<i, "getFullTrailsByIds">> \in pool.held
    /\ LET m == TrailIdsMap(ucall[i].raw)
           u == [ucall[i] EXCEPT !.facquired = @ + 1]
       IN  IF m.err # NoError
           THEN FullLeave(i, u, pool, Failed(FullTrailsCatch(m.err)))
           ELSE /\ ucall' = [ucall EXCEPT ![i] = [u EXCEPT !.fpc = "awaitTrails", !.ids = m.ids]]
                /\ UNCHANGED pool
    /\ UNCHANGED <<searchVars, verify, users, providers, oidc, wanted, completed>>

\* part_003 50-60, 94-107: the trails query answers; Promise.all starts the
\* attribute calls, each of which calls pool.connect() at once
FullTrailsDone(i) ==
    /\ ucall[i].fpc = "awaitTrails"
    /\ \/ LET found == Range(ucall[i].ids) \cap {t.id : t \in Trails}
              attrs == AttributeCalls(ucall[i].userId)
          IN  IF found # {}
              THEN /\ ucall' = [ucall EXCEPT ![i] =
                         [@ EXCEPT !.fpc = "awaitAttrs",
                                   !.subs = [s \in SubNames |->
                                                IF s \in Range(attrs) THEN "pending" ELSE "none"]]]
                   /\ pool' = PoolConnectAll(pool, i, attrs)
              ELSE FullLeave(i, ucall[i], pool,
                             Failed(FullTrailsCatch(
                                 NotFoundError("No trails found for the provided IDs"))))
       \/ FullLeave(i, [ucall[i] EXCEPT !.fqueryFailed = TRUE], pool,
                    Failed(FullTrailsCatch(QueryError)))
    /\ UNCHANGED <<searchVars, verify, users, providers, oidc, wanted, completed>>

\* one call under Promise.all has its client: its query answers or fails and
\* its finally releases the client (see SubDone)
FullSubDone(i, s) ==
    /\ ucall[i].subs[s] = "pending"
    /\ <<i, s>> \in pool.held
    /\ \E ok \in BOOLEAN :
         LET rejects == ~ok /\ s # "getTrailCoordsByIds"
             u == [ucall[i] EXCEPT !.subs[s] = "settled"]
             p1 == PoolRelease(pool, <<i, s>>)
         IN  IF ucall[i].fpc = "awaitAttrs" /\ rejects
             THEN FullLeave(i, [u EXCEPT !.fqueryFailed = TRUE], p1,
                            Failed(FullTrailsCatch(DatabaseError("", QueryError))))
             ELSE IF ucall[i].fpc = "awaitAttrs" /\ \A x \in SubNames : u.subs[x] # "pending"
             THEN FullLeave(i, u, p1,
                            GaveTrails(Range(ucall[i].ids) \cap {t.id : t \in Trails}))
             ELSE /\ ucall' = [ucall EXCEPT ![i] = u]
                  /\ pool' = p1
    /\ UNCHANGED <<searchVars, verify, users, providers, oidc, wanted, completed>>

NextUser ==
    \/ \E i \in active : ListCall(i)
    \/ \E i \in active : DeleteCall(i)
    \/ \E i \in active : FullCall(i)
    \/ \E i \in active : UserQuery(i)
    \/ \E i \in active : ListRowsDone(i)
    \/ \E i \in active : DeleteDone(i)
    \/ \E i \in active : FullQuery(i)
    \/ \E i \in active : FullTrailsDone(i)
    \/ \E i \in active : \E s \in SubNames : FullSubDone(i, s)

\* one caller, whose calls follow one another
InitUser == InitWith({1}, [i \in Procs |-> SearchArgs(<<>>, "Imperial", 0)])
SpecUser == InitUser /\ [][NextUser]_vars

(***************************************************************************)
(* The claims.                                                             *)
(***************************************************************************)
Composed(i) == queries[i] # <<>>
CountWhere(i) == queries[i][1].where
CountParams(i) == queries[i][1].params

MinGiven(i) == Get(args[i].filters, "minDistance")
MaxGiven(i) == Get(args[i].filters, "maxDistance")

\* the range fragments on a distance column, by their position in the clause
DistanceColumns == {"ts.distance_imperial", "ts.distance_metric"}
DistanceRanges(i) ==
    {j \in 1..Len(CountWhere(i)) :
        /\ CountWhere(i)[j].col \in DistanceColumns
        /\ CountWhere(i)[j].kind \in {">=", "<=", "BETWEEN"}}
LowerBounds(i) ==
    {CountParams(i)[CountWhere(i)[j].p1] :
        j \in {x \in DistanceRanges(i) : CountWhere(i)[x].kind \in {">=", "BETWEEN"}}}
UpperBounds(i) ==
    {CountParams(i)[CountWhere(i)[j].p1] :
        j \in {x \in DistanceRanges(i) : CountWhere(i)[x].kind = "<="}}
    \cup {CountParams(i)[CountWhere(i)[j].p2] :
        j \in {x \in DistanceRanges(i) : CountWhere(i)[x].kind = "BETWEEN"}}

\* C1: when the filter map has both minDistance and maxDistance set and the
\* minimum is greater than the maximum, the values are swapped before binding:
\* the parameter bound as the lower distance bound is <= the one bound as the
\* upper distance bound.
C1_InvertedRangeSwapped ==
    \A i \in active :
        (/\ Composed(i)
         /\ Truthy(MinGiven(i)) /\ Truthy(MaxGiven(i))
         /\ GreaterThan(MinGiven(i), MaxGiven(i)))
        => /\ LowerBounds(i) # {} /\ UpperBounds(i) # {}
           /\ \A lo \in LowerBounds(i), hi \in UpperBounds(i) :
                 lo.t = "num" /\ hi.t = "num" /\ lo.n <= hi.n

\* C2: searchTrails(null, 1, 10, {minDistanceImperial: 10, maxDistanceImperial: 2},
\* null, "Imperial") returns exactly the trails whose imperial distance lies in
\* [2, 10], and totalCount is their number.
C2Args ==
    SearchArgs(<<[k |-> "minDistanceImperial", v |-> Num(10)],
                 [k |-> "maxDistanceImperial", v |-> Num(2)]>>, "Imperial", 0)
C2Expected == {t.id : t \in {r \in Trails : r.distance_imperial >= 2 /\ r.distance_imperial <= 10}}
C2_UnitKeysAreARange ==
    \A i \in active :
        (args[i] = C2Args /\ outcome[i].kind = "return")
        => /\ outcome[i].trails = C2Expected
           /\ outcome[i].totalCount = Cardinality(C2Expected)

\* C3: when both distance bounds are present, exactly one BETWEEN fragment with
\* two bound parameters is emitted for the pair, both entries are removed from
\* the filter map, and the second bound key adds no further distance fragment.
C3_BothBoundsOneBetween ==
    \A i \in active :
        (Composed(i) /\ Truthy(MinGiven(i)) /\ Truthy(MaxGiven(i)))
        => /\ Cardinality(DistanceRanges(i)) = 1
           /\ \A j \in DistanceRanges(i) :
                 /\ CountWhere(i)[j].kind = "BETWEEN"
                 /\ CountWhere(i)[j].p1 # CountWhere(i)[j].p2
           /\ ~HasKey(filters[i], "minDistance")
           /\ ~HasKey(filters[i], "maxDistance")

\* C4: for every filter map with exactly one of minDistance and maxDistance
\* (truthy), exactly one distance fragment with one bound parameter is emitted:
\* '>=' for a minimum bound, '<=' for a maximum bound, and none of the opposite
\* direction.
C4_SingleBoundOneSided ==
    \A i \in active :
        (Composed(i) /\ Truthy(MinGiven(i)) # Truthy(MaxGiven(i)))
        => /\ Cardinality(DistanceRanges(i)) = 1
           /\ \A j \in DistanceRanges(i) :
                 CountWhere(i)[j].kind = IF Truthy(MinGiven(i)) THEN ">=" ELSE "<="

\* C5: for every features array of length N, every trail that satisfies the
\* emitted features fragment is associated with all N named features; a trail
\* with only a strict subset of them never satisfies it.
C5_FeaturesAllOf ==
    \A i \in active :
        (Composed(i) /\ Get(args[i].filters, "features").t = "arr")
        => \E j \in 1..Len(CountWhere(i)) :
              /\ CountWhere(i)[j].kind = "featuresAll"
              /\ \A feats \in SUBSET FeatureNames :
                    Satisfies(Trail(0, 0, 0, 0, "", feats), CountWhere(i)[j], CountParams(i))
                    => Range(Get(args[i].filters, "features").a) \subseteq feats
C5_Witness ==
    \E i \in active :
        /\ pc[i] = "awaitIds"
        /\ Len(Get(args[i].filters, "features").a) = 2
        /\ totalCount[i] >= 1

\* C6: every searchTrails invocation that obtained a connection releases it
\* exactly once on every exit path (return, validation failure, count-query,
\* id-query and hydration failure).
C6_ReleasedExactlyOnce ==
    \A i \in active :
        /\ acquired[i] <= 1
        /\ released[i] <= acquired[i]
        /\ pc[i] # "done" => released[i] = 0
        /\ pc[i] = "done" => /\ released[i] = acquired[i]
                             /\ <<i, "searchTrails">> \notin pool.held
C6_Witness ==
    \E i \in active :
        pc[i] = "done" /\ failure[i] = "compose" /\ acquired[i] = 1 /\ released[i] = 1

\* C7: a searchTrails invocation holds at most one pooled connection at any
\* moment, hydration through Trail.getFullTrailsByIds included.
C7_AtMostOneClient ==
    \A i \in active : Cardinality({h \in pool.held : h[1] = i}) <= 1

\* C8: no state is reachable in which every connection is held by an invocation
\* that is itself waiting for another connection.
AttrsBlocked(i) ==
    /\ \E s \in SubNames : sub[i][s] = "pending"
    /\ \A s \in SubNames : sub[i][s] = "pending" => <<i, s>> \notin pool.held
HolderWaits(h) ==
    CASE h[2] = "searchTrails" ->
            /\ pc[h[1]] = "awaitHydrate"
            /\ \/ hpc[h[1]] = "awaitConnect" /\ <<h[1], "getFullTrailsByIds">> \notin pool.held
               \/ hpc[h[1]] = "awaitAttrs" /\ AttrsBlocked(h[1])
      [] h[2] = "getFullTrailsByIds" -> hpc[h[1]] = "awaitAttrs" /\ AttrsBlocked(h[1])
      [] OTHER -> FALSE
C8_NoPoolDeadlock ==
    ~(Cardinality(pool.held) = PoolSize /\ \A h \in pool.held : HolderWaits(h))

\* C9: when the id query returns zero rows, searchTrails returns
\* {totalCount, trails: []} and Trail.getFullTrailsByIds is never invoked;
\* hydration is invoked only with a non-empty id list.
C9_NoHydrationOfNoRows ==
    \A i \in active :
        /\ \A j \in 1..Len(hydrated[i]) : hydrated[i][j] # {}
        /\ (result[i].answered /\ result[i].rows = {})
           => /\ hydrated[i] = <<>>
              /\ hpc[i] = "none"
              /\ pc[i] = "done"
              /\ outcome[i] = Returned(totalCount[i], {})
C9_Witness ==
    \E i \in active :
        result[i].answered /\ result[i].rows = {} /\ pc[i] = "done" /\ args[i].filters # <<>>

ValidationError(i) ==
    IF binder[i].err.message = "Features filter must be an array"
    THEN "InvalidFilterValue"
    ELSE "InvalidFilterKey"
C11_ValidationErrorsOwnKind ==
    \A i \in active :
        (pc[i] = "done" /\ failure[i] = "compose")
        => /\ outcome[i].kind = "throw"
           /\ outcome[i].error # Error("Error executing search query")
           /\ outcome[i].error.name = ValidationError(i)

\* C12: the sanitized full-text expression consists of exactly the term's
\* tokens that are non-empty after stripping non-word characters, joined by
\* the AND connective: a token of punctuation only contributes nothing, so
\* "Cave & Falls!" yields Cave and Falls and no empty operand.
SurvivingTokens(term) ==
    LET tokens == Split(term, " ")
        stripped == [j \in 1..Len(tokens) |-> StripNonWord(tokens[j])]
    IN  SelectSeq(stripped, TrimNotEmpty)
TextParams(i) ==
    {CountParams(i)[CountWhere(i)[j].p1].s :
        j \in {x \in 1..Len(CountWhere(i)) : CountWhere(i)[x].kind = "tsquery"}}
C12_OnlySurvivingTokensJoined ==
    \A i \in active :
        (Composed(i) /\ SurvivingTokens(args[i].searchTerm.s) # <<>>)
        => TextParams(i) = {"%" \o Join(SurvivingTokens(args[i].searchTerm.s), " & ") \o "%"}

\* C13: when the search term is absent, empty or only white space, searchTrails
\* emits no full-text fragment and binds no parameter for the term.
Blank(term) ==
    ~Truthy(term) \/ \A j \in 1..Len(term.s) : CharAt(term.s, j) \in WhiteSpace
C13_BlankTermNoTextPredicate ==
    \A i \in active :
        (Composed(i) /\ Blank(args[i].searchTerm))
        => /\ TextParams(i) = {}
           /\ \A j \in 1..Len(CountWhere(i)) : CountWhere(i)[j].kind # "tsquery"
           /\ Len(CountParams(i))
                = Len(ComposePredicate(Undefined, args[i].filters, args[i].unit).params)

\* C14: composing the predicate for the same filter map twice, with a fresh
\* binder each time (two successive searchTrails calls given the same filter
\* map), yields the same predicate shape and the same parameter list.
CountQueries(i) == {j \in 1..Len(queries[i]) : queries[i][j].q = "count"}
C14_ComposeTwiceSame ==
    \A i \in active :
        \A a, b \in CountQueries(i) :
            /\ queries[i][a].where = queries[i][b].where
            /\ queries[i][a].params = queries[i][b].params

\* C15 (as claimed): for each elevation-family key with a truthy value, one
\* single-sided fragment on the unit-qualified column with a strict comparison,
\* '>' for a min key and '<' for a max key: a trail whose value equals the
\* bound is excluded.
GivenElevationKeys(i) ==
    {k \in ElevationKeys : Truthy(Get(args[i].filters, k))}
ElevationFragments(i, key, op) ==
    {j \in 1..Len(CountWhere(i)) :
        /\ CountWhere(i)[j].kind = op
        /\ CountWhere(i)[j].col = jsToSqlFilters(key \o args[i].unit)
        /\ CountParams(i)[CountWhere(i)[j].p1] = Get(args[i].filters, key)}
FirstCount(i) == Composed(i) /\ queries[i][1].call = 1
StructuredKeys == {"features", "difficulty", "type"} \cup DistanceKeys \cup ElevationKeys
GivenPlainKeys(i) ==
    {k \in Range(Keys(args[i].filters)) :
        /\ k \notin StructuredKeys
        /\ ~StartsWith(k, "min") /\ ~StartsWith(k, "max")
        /\ jsToSqlFilters(k) # NoColumn}
PlainFragments(i, key) ==
    {j \in 1..Len(CountWhere(i)) : CountWhere(i)[j].col = jsToSqlFilters(key)}
C16_PlainKeysCompare ==
    \A i \in active : \A key \in GivenPlainKeys(i) :
        FirstCount(i)
        => LET given == Get(args[i].filters, key)
           IN  /\ Cardinality(PlainFragments(i, key)) = 1
               /\ \A j \in PlainFragments(i, key) : \A t \in Trails :
                     Satisfies(t, CountWhere(i)[j], CountParams(i))
                     <=> IF given.t = "num"
                         THEN Column(t, jsToSqlFilters(key)) = given
                         ELSE Lower(Column(t, jsToSqlFilters(key)).s) = Lower(given.s)

\* C17: a filter key that is neither a structured key nor in the lookup table
\* is ignored: it adds no fragment, binds no parameter and raises no error, so
\* the call composes, counts and returns what the same call without that key
\* does.
GivenUnknownKeys(i) ==
    {k \in Range(Keys(args[i].filters)) :
        k \notin StructuredKeys /\ jsToSqlFilters(k) = NoColumn}
C17_UnknownKeyIgnored ==
    \A i \in active : \A key \in GivenUnknownKeys(i) :
        (calls[i] = 1 /\ pc[i] \notin {"idle", "awaitConnect"} /\ failure[i] # "connect")
        => LET without == ComposePredicate(args[i].searchTerm,
                                           DeleteKey(args[i].filters, key), args[i].unit)
           IN  /\ HasKey(filters[i], key)
               /\ failure[i] = "compose" <=> without.err # NoError
               /\ failure[i] = "compose" => binder[i].err = without.err
               /\ failure[i] # "compose"
                  => /\ queries[i][1].where = without.where
                     /\ queries[i][1].params = without.params
               /\ outcome[i].kind = "return"
                  => outcome[i].totalCount
                        = Cardinality(Matching(without.where, without.params))
C17_Witness ==
    \E i \in active :
        /\ calls[i] = 1 /\ pc[i] = "done" /\ outcome[i].kind = "return"
        /\ Keys(args[i].filters) = <<"color", "city">>
        /\ outcome[i].totalCount = 2

\* C18: totalCount is the number of distinct trails matching the search term
\* and filters, whatever page and limit are; trails holds at most limit records,
\* those at offset (page-1)*limit of the match set: with 25 matches, limit 10 and
\* page 3 the offset is 20, trails has 5 records and totalCount is 25.
MatchSet(i) == Matching(CountWhere(i), CountParams(i))
C18_CountAndPage ==
    /\ Offset(3, 10) = 20 /\ PageSize(25, 10, Offset(3, 10)) = 5
    /\ \A i \in active :
          (calls[i] = 1 /\ pc[i] = "done" /\ outcome[i].kind = "return")
          => LET rest == IF Cardinality(MatchSet(i)) > (args[i].page - 1) * args[i].limit
                         THEN Cardinality(MatchSet(i)) - (args[i].page - 1) * args[i].limit
                         ELSE 0
             IN  /\ CountWhere(i) = ComposePredicate(args[i].searchTerm, args[i].filters,
                                                     args[i].unit).where
                 /\ outcome[i].totalCount = Cardinality(MatchSet(i))
                 /\ outcome[i].trails \subseteq MatchSet(i)
                 /\ Cardinality(outcome[i].trails) <= args[i].limit
                 /\ Cardinality(outcome[i].trails)
                       = IF rest < args[i].limit THEN rest ELSE args[i].limit
C18_Witness ==
    \E i \in active :
        /\ calls[i] = 1 /\ pc[i] = "done" /\ outcome[i].kind = "return"
        /\ args[i].page = 2 /\ args[i].limit = 3
        /\ outcome[i].totalCount = 4
        /\ Cardinality(outcome[i].trails) = 1

\* C20: Trail.verifyTrailExists(trailId) returns true when a trail with that
\* id exists and throws NotFoundError to its caller when no trail has that id.
C20_VerifyTrailExists ==
    \A i \in Procs :
        (verify[i].pc = "done" /\ ~verify[i].queryFailed)
        => IF \E t \in Trails : t.id = verify[i].trailId
           THEN verify[i].out = Gave("true")
           ELSE /\ verify[i].out.kind = "throw"
                /\ verify[i].out.error.name = "NotFoundError"

\* C19: findOrCreateOIDCUser returns the user whose email is the given email,
\* creating that user (username = local part of the email, acctType 'oauth')
\* only when no user has the email; after the call a provider record for (that
\* user's id, providerName) exists and holds the supplied access and refresh
\* tokens: created when none existed, updated in place when one existed.
LocalPart(email) ==
    SubSeq(email, 1, (CHOOSE j \in 1..Len(email) :
                         CharAt(email, j) = "@" /\ \A x \in 1..(j - 1) : CharAt(email, x) # "@") - 1)
C19_FindOrCreateOIDCUser ==
    \A i \in active :
    (oidc[i].pc = "done" /\ oidc[i].out.kind = "return")
    => LET u == oidc[i].out.user
           obj == oidc[i].obj
           had == FindByUserIdAndProvider(oidc[i].providers0, u.id, obj.providerName)
           has == FindByUserIdAndProvider(providers, u.id, obj.providerName)
       IN  /\ u \in users /\ u.email = obj.email
           /\ FindByEmail(users, obj.email) = {u}
           /\ IF FindByEmail(oidc[i].users0, obj.email) # {}
              THEN users = oidc[i].users0
              ELSE /\ users = oidc[i].users0 \cup {u}
                   /\ u \notin oidc[i].users0
                   /\ u.username = LocalPart(obj.email)
                   /\ u.acctType = "oauth"
           /\ has # {}
           /\ \A r \in has : /\ r.accessToken = obj.accessToken
                              /\ r.refreshToken = obj.refreshToken
           /\ IF had = {}
              THEN \E r \in has : r \notin oidc[i].providers0
                                  /\ providers = oidc[i].providers0 \cup {r}
              ELSE /\ {r.id : r \in providers} = {r.id : r \in oidc[i].providers0}
                   /\ {r.id : r \in had} \subseteq {r.id : r \in has}
C19_Witness ==
    \E i \in active :
        /\ oidc[i].pc = "done" /\ oidc[i].out.kind = "return"
        /\ FindByEmail(oidc[i].users0, oidc[i].obj.email) # {}
        /\ \E r \in FindByUserIdAndProvider(oidc[i].providers0, oidc[i].out.user.id,
                                            oidc[i].obj.providerName) :
              r.accessToken # oidc[i].obj.accessToken

\* C24: at every point of a searchTrails call the binder counter equals the
\* length of the parameter list; the k-th call of addParam returns the token
\* $k; and at each of the two query executions the placeholder indices of the
\* query text are exactly 1..(length of the parameter list passed).
TokensOf(frag) == IF frag.p2 # 0 THEN <<frag.p1, frag.p2>> ELSE <<frag.p1>>
RECURSIVE TokenSeq(_)
TokenSeq(where) ==
    IF where = <<>> THEN <<>> ELSE TokensOf(Head(where)) \o TokenSeq(Tail(where))
QueryTokens(q) ==
    TokenSeq(q.where) \o (IF q.q = "ids" THEN <<q.limitParam, q.offsetParam>> ELSE <<>>)
ComposedUpTo(i, n) ==
    FilterLoop(TextPredicate(NewBinder(filters[i]), args[i].searchTerm),
               SubSeq(Keys(filters[i]), 1, n), 1, args[i].unit)
C24_PlaceholdersMatchParams ==
    \A i \in active :
        /\ binder[i].paramCount = Len(binder[i].params)
        /\ TokenSeq(binder[i].where) = [k \in 1..Len(TokenSeq(binder[i].where)) |-> k]
        /\ pc[i] = "awaitConnect"
           => \A n \in 0..Len(filters[i]) :
                 /\ ComposedUpTo(i, n).paramCount = Len(ComposedUpTo(i, n).params)
                 /\ TokenSeq(ComposedUpTo(i, n).where) = [k \in 1..ComposedUpTo(i, n).paramCount |-> k]
        /\ \A j \in 1..Len(queries[i]) :
              /\ QueryTokens(queries[i][j]) = [k \in 1..Len(queries[i][j].params) |-> k]
              /\ Range(QueryTokens(queries[i][j])) = 1..Len(queries[i][j].params)
C24_Witness ==
    \E i \in active :
        /\ pc[i] = "awaitIds" /\ calls[i] = 1
        /\ Truthy(args[i].searchTerm)
        /\ Len(FinalQuery(i).where) = 2
        /\ Len(FinalQuery(i).params) = 4
        /\ FinalQuery(i).offsetParam = 4

\* C25: in every searchTrails call the count query executes first, with only
\* the predicate-phase parameters; the id query executes after it with the
\* identical WHERE clause and the predicate-phase parameters followed by limit
\* and then offset = (page-1)*limit; if the count query fails, neither the id
\* query nor hydration is executed.
QueriesOfCall(i) == SelectSeq(queries[i], LAMBDA q : q.call = calls[i])
C25_CountThenIds ==
    \A i \in active :
        LET qs == QueriesOfCall(i)
        IN  /\ Len(qs) <= 2
            /\ Len(qs) >= 1
               => /\ qs[1].q = "count"
                  /\ qs[1].limitParam = 0 /\ qs[1].offsetParam = 0
                  /\ Len(qs[1].params) = Len(TokenSeq(qs[1].where))
            /\ Len(qs) = 2
               => /\ qs[2].q = "ids"
                  /\ qs[2].where = qs[1].where
                  /\ qs[2].params = qs[1].params \o <<Num(args[i].limit),
                                                      Num((args[i].page - 1) * args[i].limit)>>
                  /\ qs[2].params[qs[2].limitParam] = Num(args[i].limit)
                  /\ qs[2].params[qs[2].offsetParam] = Num((args[i].page - 1) * args[i].limit)
            /\ pc[i] = "awaitCount" => Len(qs) = 1
            /\ (pc[i] = "awaitIds" \/ result[i].answered \/ hydrated[i] # <<>> \/ hpc[i] # "none")
               => Len(qs) = 2
            /\ failure[i] = "count"
               => /\ Len(qs) = 1 /\ pc[i] = "done"
                  /\ ~result[i].answered /\ hydrated[i] = <<>> /\ hpc[i] = "none"
C25_Witness ==
    \E i \in active :
        /\ calls[i] = 1 /\ pc[i] = "done" /\ outcome[i].kind = "return"
        /\ args[i].page = 3 /\ args[i].limit = 2
        /\ Len(queries[i]) = 2
        /\ queries[i][2].params = <<Str("Huntsville"), Num(2), Num(4)>>

\* C26: when predicate composition fails validation (filters.features not an
\* array, or a range key without a lookup entry for the unit), no query has
\* been executed: neither the count query, nor the id query, nor hydration
\* runs, whatever the position of the offending key in the filter map.
OffendingKeys(f, unit) ==
    {k \in Range(Keys(f)) :
        \/ k = "features" /\ Get(f, k).t # "arr"
        \/ /\ k \in DistanceKeys \cup ElevationKeys
           /\ Truthy(Get(f, k))
           /\ jsToSqlFilters(k \o unit) = NoColumn}
C26_ValidationBeforeQueries ==
    \A i \in active :
        /\ failure[i] = "compose"
           => /\ QueriesOfCall(i) = <<>>
              /\ ~result[i].answered /\ hydrated[i] = <<>> /\ hpc[i] = "none"
              /\ pc[i] = "done" /\ outcome[i].kind = "throw"
        /\ (/\ calls[i] = 1 /\ pc[i] \notin {"idle", "awaitConnect"} /\ failure[i] # "connect"
            /\ OffendingKeys(args[i].filters, args[i].unit) # {})
           => failure[i] = "compose"
C26_Witness ==
    \E i \in active :
        /\ calls[i] = 1 /\ pc[i] = "done" /\ failure[i] = "compose"
        /\ Keys(args[i].filters) = <<"city", "features">>
        /\ queries[i] = <<>>

\* C27: when only maxDistance is present, the single-sided '<=' fragment that
\* addDistanceFilters emits is on the column the lookup table gives for
\* maxDistance<unit>; when only minDistance is present, the '>=' fragment is
\* on the column for minDistance<unit>.
SingleSided(i, op) ==
    {j \in 1..Len(CountWhere(i)) :
        /\ CountWhere(i)[j].kind = op
        /\ CountWhere(i)[j].col \in DistanceColumns \cup {NoColumn}}
UnitKeysGiven(i) ==
    \E k \in {"minDistance", "maxDistance"} : Truthy(Get(args[i].filters, k \o args[i].unit))
SameSearch(i, j) == args[i] = [args[j] EXCEPT !.page = args[i].page]
NumPages(i) == (Cardinality(MatchSet(i)) + args[i].limit - 1) \div args[i].limit
Fetched(i) == calls[i] = 1 /\ result[i].answered
C30_PagesPartition ==
    \A i, j \in active :
        (/\ Fetched(i) /\ Fetched(j) /\ SameSearch(i, j)
         /\ args[i].page # args[j].page)
        => /\ result[i].rows \cap result[j].rows = {}
           /\ {args[x].page : x \in active} = 1..NumPages(i)
              => UNION {result[x].rows : x \in active} = MatchSet(i)

\* C28: updating the tokens of one OAuth provider record of a user
\* (OAuthProvider.update, called by findOrCreateOIDCUser for an already linked
\* provider) changes only that record: the records the user holds for other
\* provider names keep their provider name, provider user id and tokens, so
\* after any sequence of logins each user has at most one record per provider
\* name.
C28_UpdateOnlyThatRecord ==
    /\ \A r1, r2 \in providers :
          (r1.userId = r2.userId /\ r1.providerName = r2.providerName) => r1 = r2
    /\ \A i \in active :
          (/\ oidc[i].pc = "done" /\ oidc[i].out.kind = "return"
           /\ FindByUserIdAndProvider(oidc[i].providers0, oidc[i].out.user.id,
                                      oidc[i].obj.providerName) # {})
          => \A r \in oidc[i].providers0 :
                (r.userId # oidc[i].out.user.id \/ r.providerName # oidc[i].obj.providerName)
                => r \in providers

\* C29: for any interleaving of two concurrent findOrCreateOIDCUser calls
\* carrying the same email, which no user has yet, and the same provider name,
\* exactly one user is created for that email and exactly one provider record
\* is created for (that user, provider name).
RacingLogins(i, j) ==
    /\ i # j
    /\ oidc[i].pc # "idle" /\ oidc[j].pc # "idle"
    /\ oidc[i].obj.email = oidc[j].obj.email
    /\ oidc[i].obj.providerName = oidc[j].obj.providerName
    /\ FindByEmail(oidc[i].users0, oidc[i].obj.email) = {}
    /\ FindByEmail(oidc[j].users0, oidc[j].obj.email) = {}
C29_OneUserOneProvider ==
    \A i, j \in active :
        RacingLogins(i, j)
        => LET created == FindByEmail(users, oidc[i].obj.email)
           IN  /\ Cardinality(created) <= 1
               /\ \A u \in created :
                     Cardinality(FindByUserIdAndProvider(providers, u.id,
                                                         oidc[i].obj.providerName)) <= 1
               /\ (/\ oidc[i].pc = "done" /\ oidc[i].out.kind = "return"
                   /\ oidc[j].pc = "done" /\ oidc[j].out.kind = "return")
                  => /\ Cardinality(created) = 1
                     /\ oidc[i].out.user = oidc[j].out.user

\* C21: for a user who has no wishlist entries User.getWishList returns an
\* empty array, and for a user who has no completed trails User.getCompleted
\* returns an empty array; neither raises an error in that case.
C21_EmptyListsReturnEmpty ==
    \A i \in active :
        (/\ ucall[i].pc = "done"
         /\ ucall[i].method \in {"getWishList", "getCompleted"}
         /\ ~ucall[i].queryFailed /\ ~ucall[i].fqueryFailed
         /\ ucall[i].rows = {})
        => ucall[i].out = GaveTrails({})

\* C22: User.deleteFromWishList(userId, trailId) throws NotFoundError when the
\* pair (userId, trailId) is not in the wishlist, throws DatabaseError only
\* when the database operation itself fails, and otherwise returns the removed
\* trail id.
C22_DeleteFromWishList ==
    \A i \in active :
        (ucall[i].pc = "done" /\ ucall[i].method = "deleteFromWishList")
        => /\ ucall[i].out.kind = "throw" /\ ucall[i].out.error.name = "DatabaseError"
              => ucall[i].queryFailed
           /\ ~ucall[i].queryFailed
              => IF ucall[i].rows = {}
                 THEN /\ ucall[i].out.kind = "throw"
                      /\ ucall[i].out.error.name = "NotFoundError"
                 ELSE /\ ucall[i].out = GaveId(ucall[i].trailId)
                      /\ <<ucall[i].userId, ucall[i].trailId>> \notin wanted

\* C23: Trail.getFullTrailsByIds throws BadRequestError when any supplied id
\* is not numeric (Number(id) is NaN) and NotFoundError when no trail matches
\* the supplied ids, an empty id list included; both reach its caller
\* unchanged, never as DatabaseError, and the acquired connection is released
\* in both cases.
NotNumeric(v) == Number(v) = NaN
FullEnded(i) == ucall[i].fpc \in {"threw", "returned"}
C23_FullTrailsErrors ==
    \A i \in active :
        /\ (FullEnded(i) /\ \E j \in 1..Len(ucall[i].raw) : NotNumeric(ucall[i].raw[j]))
           => ucall[i].fout = Failed(BadRequestError("Trail ids must be a number."))
        /\ (/\ FullEnded(i) /\ ~ucall[i].fqueryFailed
            /\ \A j \in 1..Len(ucall[i].raw) :
                  /\ ~NotNumeric(ucall[i].raw[j])
                  /\ \A t \in Trails : t.id # Number(ucall[i].raw[j]).n)
           => ucall[i].fout = Failed(NotFoundError("No trails found for the provided IDs"))
        /\ (FullEnded(i) /\ ucall[i].method = "getFullTrailsByIds")
           => ucall[i].out = ucall[i].fout
        /\ FullEnded(i)
           => /\ ucall[i].facquired = 1 /\ ucall[i].freleased = 1
              /\ <<i, "getFullTrailsByIds">> \notin pool.held
        /\ ~FullEnded(i) => ucall[i].freleased = 0
C23_Witness ==
    \E i \in active :
        /\ ucall[i].pc = "done" /\ ucall[i].method = "getFullTrailsByIds"
        /\ ucall[i].raw = <<>>
        /\ ucall[i].out.kind = "throw" /\ ucall[i].out.error.name = "NotFoundError"
        /\ ucall[i].freleased = 1

====
